---- MODULE Spec2Model ----
(***************************************************************************)
(* Model of the Hamilton Microlab syringe pump driver:                     *)
(*   - Comms (comms.py): the socket, the lock around one send+receive, and *)
(*     the classification of a reply;                                      *)
(*   - Microlab (microlab.py): the command cycle run in a background       *)
(*     thread, started by cycle_commands and stopped by stop_cycle.        *)
(* Strings are sequences of byte values; a Python Optional is a record     *)
(* with the field isNone; a call's outcome records the exception raised.   *)
(***************************************************************************)
EXTENDS Integers, Sequences, FiniteSets, TLC

(***************************************************************************)
(* Bounds of the model.                                                    *)
(***************************************************************************)
\* longest reply the device delivers in one receive, in bytes
MaxLen == 4
\* longest second reply, for the comparison of two replies
MaxLen2 == 2
\* number of threading.Thread objects cycle_commands creates in a run
MaxThreads == 2
\* length of the command list given to cycle_commands
NumCommands == 2
\* most idle-polls the device lets one command take in the counted runs
MaxPolls == 3
\* the most entries of a parameter map the monitor loop is run on
MaxPVs == 2
\* calls of recv the drain loop of clear_socket is followed for
MaxRecvs == 4
\* transactions made one after the other on one socket
MaxTransactions == 3

(***************************************************************************)
(* comms.py: constants.                                                    *)
(***************************************************************************)
CR == 13
ACK == 6
NACK == 33
\* the largest byte value the ascii codec decodes
CODEC == 127

\* the bytes a reply is made of in the model: the three protocol characters,
\* 'Y' (89), '@' (64) and a byte that is not ASCII (200)
ReplyBytes == {ACK, NACK, CR, 89, 64, 200}

(***************************************************************************)
(* Python values.                                                          *)
(***************************************************************************)
None == [isNone |-> TRUE, str |-> <<>>]
Some(s) == [isNone |-> FALSE, str |-> s]

\* exceptions a call can end with; NoExc: the call returned
NoExc == "none"
SocketTimeout == "socket.timeout"
IndexError == "IndexError"
RuntimeError == "RuntimeError"

\* what a receive on the socket gives: it times out, or it returns bytes
\* (no bytes at all when the peer has closed the stream)
RecvTimeout == [timeout |-> TRUE, bytes |-> <<>>]
RecvBytes(b) == [timeout |-> FALSE, bytes |-> b]

(***************************************************************************)
(* str.split(CR), str.strip(ch), bytes.decode(CODEC)                       *)
(***************************************************************************)
RECURSIVE FirstIndex(_, _, _)
FirstIndex(s, ch, i) ==
    IF i > Len(s) THEN 0
    ELSE IF s[i] = ch THEN i
    ELSE FirstIndex(s, ch, i + 1)

\* a split that drops the empty segments, as str.split() without a separator does
RECURSIVE split_skips_empty(_, _)
split_skips_empty(s, sep) ==
    LET i == FirstIndex(s, sep, 1)
        head == IF i = 0 THEN s ELSE SubSeq(s, 1, i - 1)
        rest == IF i = 0 THEN <<>> ELSE split_skips_empty(SubSeq(s, i + 1, Len(s)), sep)
    IN  IF head = <<>> THEN rest ELSE <<head>> \o rest

RECURSIVE split(_, _)
split(s, sep) ==
    LET i == FirstIndex(s, sep, 1)
    IN  IF i = 0 THEN <<s>>
        ELSE <<SubSeq(s, 1, i - 1)>> \o split(SubSeq(s, i + 1, Len(s)), sep)

RECURSIVE lstrip(_, _)
lstrip(s, ch) ==
    IF s # <<>> /\ Head(s) = ch THEN lstrip(Tail(s), ch) ELSE s

\* a cut of the last character whatever it is, as the slice [:-1] does
rstrip_drops_last(s, ch) ==
    IF s # <<>> THEN SubSeq(s, 1, Len(s) - 1) ELSE s

RECURSIVE rstrip(_, _)
rstrip(s, ch) ==
    IF s # <<>> /\ s[Len(s)] = ch THEN rstrip(SubSeq(s, 1, Len(s) - 1), ch) ELSE s

\* a strip of the leading characters only, as str.lstrip does
strip_leading_only(s, ch) == lstrip(s, ch)

strip(s, ch) == rstrip(lstrip(s, ch), ch)

Decodable(bytes) == \A i \in 1..Len(bytes) : bytes[i] <= CODEC

(***************************************************************************)
(* Comms._send_receive, after the exchange: decode the response and look   *)
(* at its first character.                                                 *)
(***************************************************************************)
\* a _send_receive that rejects a response with a NACK anywhere in it
_send_receive_any_nack(recv) ==
    IF recv.timeout
        THEN [raised |-> SocketTimeout, ret |-> None, log |-> <<>>]
    ELSE IF ~Decodable(recv.bytes)
        THEN [raised |-> NoExc, ret |-> None, log |-> <<"error: failed to parse">>]
    ELSE IF recv.bytes = <<>>
        THEN [raised |-> IndexError, ret |-> None, log |-> <<>>]
    ELSE IF \E i \in 1..Len(recv.bytes) : recv.bytes[i] = NACK
        THEN [raised |-> NoExc, ret |-> None, log |-> <<"error: received NACK">>]
    ELSE [raised |-> NoExc, ret |-> Some(recv.bytes), log |-> <<"debug: received">>]

_send_receive(recv) ==
    IF recv.timeout
        THEN [raised |-> SocketTimeout, ret |-> None, log |-> <<>>]
    ELSE IF ~Decodable(recv.bytes)
        THEN [raised |-> NoExc, ret |-> None, log |-> <<"error: failed to parse">>]
    ELSE IF recv.bytes = <<>>
        THEN [raised |-> IndexError, ret |-> None, log |-> <<>>]
    ELSE IF recv.bytes[1] = NACK
        THEN [raised |-> NoExc, ret |-> None, log |-> <<"error: received NACK">>]
    ELSE [raised |-> NoExc, ret |-> Some(recv.bytes), log |-> <<"debug: received">>]

(***************************************************************************)
(* Comms.send_receive: the outcome for what the receive gave.              *)
(***************************************************************************)
Raise(exc, log) ==
    [raised |-> exc, success |-> FALSE, data |-> None, log |-> log]
Return(success, data, log) ==
    [raised |-> NoExc, success |-> success, data |-> data, log |-> log]

\* a send_receive that classifies the first message instead of the last
send_receive_first_message(recv) ==
    LET r == _send_receive(recv)
    IN  IF r.raised # NoExc THEN Raise(r.raised, r.log)
        ELSE IF r.ret.isNone THEN Return(FALSE, None, r.log)
        ELSE
          LET parts == split(r.ret.str, CR)
              messages == SubSeq(parts, 1, Len(parts) - 1)
              log == IF Len(messages) > 1
                        THEN r.log \o <<"warning: multiple messages">>
                        ELSE r.log
          IN  IF messages = <<>> THEN Raise(IndexError, log)
              ELSE
                LET decoded_response == messages[1]
                IN  IF decoded_response = <<>> THEN Raise(IndexError, log)
                    ELSE IF decoded_response[1] = ACK
                        THEN LET data == strip(strip(decoded_response, ACK), CR)
                             IN  Return(TRUE, IF data = <<>> THEN None ELSE Some(data), log)
                    ELSE Return(FALSE, None, log)

send_receive(recv) ==
    LET r == _send_receive(recv)
    IN  IF r.raised # NoExc THEN Raise(r.raised, r.log)
        ELSE IF r.ret.isNone THEN Return(FALSE, None, r.log)
        ELSE
          LET parts == split(r.ret.str, CR)
              messages == SubSeq(parts, 1, Len(parts) - 1)
              log == IF Len(messages) > 1
                        THEN r.log \o <<"warning: multiple messages">>
                        ELSE r.log
          IN  IF messages = <<>> THEN Raise(IndexError, log)
              ELSE
                LET decoded_response == messages[Len(messages)]
                IN  IF decoded_response = <<>> THEN Raise(IndexError, log)
                    ELSE IF decoded_response[1] = ACK
                        THEN LET data == strip(strip(decoded_response, ACK), CR)
                             IN  Return(TRUE, IF data = <<>> THEN None ELSE Some(data), log)
                    ELSE Return(FALSE, None, log)

(***************************************************************************)
(* State.                                                                  *)
(***************************************************************************)
VARIABLES
    recvd,      \* what the receive of the transaction gives
    phase,      \* "recv": the device is still sending, "done": send_receive ended
    outcome,    \* the outcome of send_receive
    recvd2,     \* a second transaction, to compare two replies
    outcome2,
    lock,           \* Comms._lock: Free or the thread that holds it
    inflight,       \* the requests sent on the socket and not yet answered
    threads,        \* Microlab._threads: the list of thread handles
    stop_requested, \* Microlab._stop_requested
    logLevel,       \* the level of the Comms logger
    tpc,            \* per Thread object: where it is in _cycle_commands
    idx,            \* per Thread object: the command of the list it is at
    created,        \* the number of Thread objects created so far
    hist,           \* per Thread object: what its for loop has done so far
    count,          \* per Thread object: polls and delays for the current command
    counting,       \* whether this run counts them
    cpc,            \* per foreground thread: where it is in its call
    call,           \* per foreground thread: the call it makes and its result
    initialised,    \* Microlab._initialised
    input,          \* the arguments of the one call a run of the parts below makes
    output          \* what that call has done so far

replyVars == <<recvd, phase, outcome, recvd2, outcome2>>
commsVars == <<lock, inflight>>
microlabVars == <<threads, stop_requested, logLevel>>
threadVars == <<tpc, idx, created, hist>>
countVars == <<count, counting>>
callerVars == <<cpc, call>>
flagVars == <<initialised>>
driverVars == <<commsVars, microlabVars, threadVars, callerVars, countVars, flagVars>>
\* the parts of the repository around the driver: one call at a time
sideVars == <<input, output>>

vars == <<replyVars, driverVars, sideVars>>

NoOutcome == Raise("not called", <<>>)

(***************************************************************************)
(* The driver: threads, requests, the device's replies.                    *)
(***************************************************************************)
\* the foreground threads that call into the driver: two, so that calls
\* overlap with each other as well as with the cycle thread
Callers == {1, 2}
Handles == 1..MaxThreads

\* thread identities, for the lock and the socket: a foreground thread is
\* its number, the thread of Thread object h follows the foreground threads
Free == 0
CallerTid(c) == c
ThreadTid(h) == Cardinality(Callers) + h

\* microlab.py: FIRST_ADDRESS, INSTRUMENT_DONE, Y_INFO_RESPONSE
FIRST_ADDRESS == "a"
INSTRUMENT_DONE == "F"
Y_INFO_RESPONSE == <<89>>

\* a request string: the address followed by the body
Request(address, body) == <<address, body>>
\* the commands given to cycle_commands, rendered (command.string)
commands == [i \in 1..NumCommands |-> <<"command", i>>]

\* what the device can answer to a request of the driver: nothing in time,
\* a closed stream, 'idle and buffer empty', a bare ACK, a NACK, a byte that
\* is not ascii
DeviceReplies ==
    { RecvTimeout,
      RecvBytes(<<>>),
      RecvBytes(<<ACK, 89, CR>>),
      RecvBytes(<<ACK, CR>>),
      RecvBytes(<<NACK, CR>>),
      RecvBytes(<<200, CR>>) }

(***************************************************************************)
(* Comms.send_auto_address_message, after the exchange.                    *)
(***************************************************************************)
send_auto_address_message(recv) ==
    LET r == _send_receive(recv)
    IN  IF r.raised # NoExc THEN [raised |-> r.raised, ret |-> None]
        ELSE IF r.ret.isNone \/ r.ret.str = <<>> THEN [raised |-> NoExc, ret |-> None]
        ELSE [raised |-> NoExc, ret |-> Some(split(r.ret.str, CR)[1])]

(***************************************************************************)
(* Microlab.auto_address and Microlab.send_command, after the exchange.    *)
(***************************************************************************)
\* the addresses auto_address accepts: "1b" and "1a"
KnownAddresses == {<<49, 98>>, <<49, 97>>}

\* ret is the value returned (a bool) where the call returns
auto_address(recv) ==
    LET response == send_auto_address_message(recv)
    IN  IF response.raised # NoExc THEN [raised |-> response.raised, ret |-> FALSE]
        ELSE [raised |-> NoExc,
              ret |-> ~response.ret.isNone /\ response.ret.str \in KnownAddresses]

\* the result of send_receive is dropped: send_command returns None
send_command(recv) ==
    [raised |-> send_receive(recv).raised, ret |-> None]

(***************************************************************************)
(* Comms._send_receive, the exchange: `with self._lock:` send, then recv.  *)
(***************************************************************************)
\* a thread that takes the lock without waiting for it to be free
AcquireWithoutWaiting(t) == lock' = t

\* with self._lock: blocks until the lock is free
Acquire(t) ==
    /\ lock = Free
    /\ lock' = t

\* self._send(request)
Send(t, request) ==
    inflight' = inflight \cup {[by |-> t, request |-> request]}

\* the first half of an exchange: take the lock and send
BeginExchange(t, request) ==
    /\ Acquire(t)
    /\ Send(t, request)

\* the second half: the receive ends (with bytes or a timeout) and the
\* lock is released, also when the receive raises
EndExchange(t) ==
    /\ lock' = Free
    /\ inflight' = {x \in inflight : x.by # t}

(***************************************************************************)
(* The state after Microlab.__init__.                                      *)
(***************************************************************************)
\* running: whether a cycle thread was alive when the call was made
NoCall == [op |-> "none", enable_logging |-> FALSE, running |-> FALSE,
           joined |-> 0, raised |-> NoExc, result |-> "none"]
Call(op) == [NoCall EXCEPT !.op = op]

\* threads that run _cycle_commands: started and not yet ended
LoopPcs == {"start", "while", "cmd", "cmd_recv", "poll", "poll_recv", "check",
            "halt", "halt_recv", "reset_flag", "reset_clear"}
Alive(h) == tpc[h] \in LoopPcs
Finished(h) == tpc[h] \in {"done", "crashed"}

\* the history of a for loop: the command sent last (0: none), the result of
\* the idle-poll just answered ("none" once the loop has acted on it by
\* polling again or sending a command), whether halt_execution has been
\* called; it is cleared when the loop is left
NoHistory == [sent |-> 0, polled |-> "none", halted |-> FALSE]
NoCount == [polls |-> 0, busy |-> 0, sleeps |-> 0]

\* what an idle-poll told the loop
PollResult(o) ==
    IF o.data = Some(Y_INFO_RESPONSE) THEN "idle"
    ELSE IF o.success THEN "busy"
    ELSE "failed"

InitDriver ==
    /\ hist = [h \in Handles |-> NoHistory]
    /\ initialised = FALSE
    /\ lock = Free
    /\ inflight = {}
    /\ threads = <<>>
    /\ stop_requested = FALSE
    /\ logLevel = "DEBUG"
    /\ tpc = [h \in Handles |-> "none"]
    /\ idx = [h \in Handles |-> 1]
    /\ created = 0
    /\ cpc = [c \in Callers |-> "idle"]
    /\ call = [c \in Callers |-> NoCall]

InitReplyVars ==
    /\ recvd = RecvBytes(<<>>)
    /\ phase = "recv"
    /\ outcome = NoOutcome
    /\ recvd2 = RecvBytes(<<>>)
    /\ outcome2 = NoOutcome

\* the counts start at zero; on says whether the run keeps them
InitCount(on) ==
    /\ count = [h \in Handles |-> NoCount]
    /\ counting = on

\* no call of the parts around the driver is made
InitSide ==
    /\ input = <<>>
    /\ output = <<>>

Init == InitReplyVars /\ InitDriver /\ InitCount(FALSE) /\ InitSide

(***************************************************************************)
(* Foreground threads: a plain transaction (send_receive, as made by       *)
(* halt_execution, the status requests, send_command, ...) and the         *)
(* auto-address exchange.                                                  *)
(***************************************************************************)
\* bodies of the requests foreground threads send with send_receive
CallerBodies == {INSTRUMENT_DONE, "K"}

CallSendReceive(c) ==
    /\ cpc[c] = "idle"
    /\ \E body \in CallerBodies :
          BeginExchange(CallerTid(c), Request(FIRST_ADDRESS, body))
    /\ cpc' = [cpc EXCEPT ![c] = "sr_recv"]
    /\ call' = [call EXCEPT ![c] = Call("send_receive")]
    /\ UNCHANGED <<replyVars, flagVars, sideVars, countVars, microlabVars, threadVars>>

SendReceiveReply(c) ==
    /\ cpc[c] = "sr_recv"
    /\ \E recv \in DeviceReplies :
          LET o == send_receive(recv)
          IN  call' = [call EXCEPT ![c].raised = o.raised,
                                   ![c].result = IF o.raised # NoExc THEN "none"
                                                 ELSE IF o.success THEN "True"
                                                 ELSE "False"]
    /\ EndExchange(CallerTid(c))
    /\ cpc' = [cpc EXCEPT ![c] = "ret"]
    /\ UNCHANGED <<replyVars, flagVars, sideVars, countVars, microlabVars, threadVars>>

CallSendAutoAddress(c) ==
    /\ cpc[c] = "idle"
    /\ BeginExchange(CallerTid(c), <<"1a">>)
    /\ cpc' = [cpc EXCEPT ![c] = "aa_recv"]
    /\ call' = [call EXCEPT ![c] = Call("send_auto_address_message")]
    /\ UNCHANGED <<replyVars, flagVars, sideVars, countVars, microlabVars, threadVars>>

SendAutoAddressReply(c) ==
    /\ cpc[c] = "aa_recv"
    /\ \E recv \in DeviceReplies :
          LET o == send_auto_address_message(recv)
          IN  call' = [call EXCEPT ![c].raised = o.raised,
                                   ![c].result = IF o.raised # NoExc THEN "none"
                                                 ELSE IF o.ret.isNone THEN "None"
                                                 ELSE "address"]
    /\ EndExchange(CallerTid(c))
    /\ cpc' = [cpc EXCEPT ![c] = "ret"]
    /\ UNCHANGED <<replyVars, flagVars, sideVars, countVars, microlabVars, threadVars>>

\* the call is over: the foreground thread is free for its next call
ReturnToCaller(c) ==
    /\ cpc[c] = "ret"
    /\ cpc' = [cpc EXCEPT ![c] = "idle"]
    /\ call' = [call EXCEPT ![c] = NoCall]
    /\ UNCHANGED <<replyVars, flagVars, sideVars, countVars, commsVars, microlabVars, threadVars>>

(***************************************************************************)
(* Microlab.cycle_commands                                                 *)
(***************************************************************************)
\* a cycle_commands that does not look at the handle list
CycleCommandsUnchecked(c) ==
    /\ cpc[c] = "idle"
    /\ cpc' = [cpc EXCEPT ![c] = "cc_append"]
    /\ call' = [call EXCEPT ![c] = Call("cycle_commands")]
    /\ UNCHANGED <<replyVars, flagVars, sideVars, countVars, commsVars, microlabVars, threadVars>>

\* if self._threads: log the error and return
CycleCommands(c) ==
    /\ cpc[c] = "idle"
    /\ IF threads # <<>>
          THEN /\ cpc' = [cpc EXCEPT ![c] = "ret"]
               /\ call' = [call EXCEPT ![c] =
                              [Call("cycle_commands") EXCEPT !.result = "already running"]]
          ELSE /\ cpc' = [cpc EXCEPT ![c] = "cc_append"]
               /\ call' = [call EXCEPT ![c] = Call("cycle_commands")]
    /\ UNCHANGED <<replyVars, flagVars, sideVars, countVars, commsVars, microlabVars, threadVars>>

\* self._threads.append(threading.Thread(...))
CycleCommandsAppend(c) ==
    /\ cpc[c] = "cc_append"
    /\ created < MaxThreads
    /\ created' = created + 1
    /\ threads' = Append(threads, created + 1)
    /\ tpc' = [tpc EXCEPT ![created + 1] = "new"]
    /\ cpc' = [cpc EXCEPT ![c] = "cc_start"]
    /\ UNCHANGED <<replyVars, flagVars, sideVars, countVars, commsVars, stop_requested, logLevel, idx, hist, call>>

\* self._threads[0].start()
CycleCommandsStart(c) ==
    /\ cpc[c] = "cc_start"
    /\ cpc' = [cpc EXCEPT ![c] = "ret"]
    /\ IF threads = <<>>
          THEN /\ call' = [call EXCEPT ![c].raised = IndexError]
               /\ tpc' = tpc
          ELSE IF tpc[threads[1]] # "new"
          THEN /\ call' = [call EXCEPT ![c].raised = RuntimeError]
               /\ tpc' = tpc
          ELSE /\ call' = [call EXCEPT ![c].result = "started"]
               /\ tpc' = [tpc EXCEPT ![threads[1]] = "start"]
    /\ UNCHANGED <<replyVars, flagVars, sideVars, countVars, commsVars, microlabVars, idx, created, hist>>

(***************************************************************************)
(* Microlab.stop_cycle                                                     *)
(***************************************************************************)
\* if not self._threads: return
\* stop_cycle without the test of the handle list
StopCycleUnchecked(c) ==
    /\ cpc[c] = "idle"
    /\ \E enable_logging \in BOOLEAN :
          /\ cpc' = [cpc EXCEPT ![c] = "sc_level"]
          /\ call' = [call EXCEPT ![c] =
                         [Call("stop_cycle") EXCEPT
                             !.enable_logging = enable_logging,
                             !.running = \E h \in Handles : Alive(h)]]
    /\ UNCHANGED <<replyVars, flagVars, sideVars, countVars, commsVars, microlabVars, threadVars>>

StopCycle(c) ==
    /\ cpc[c] = "idle"
    /\ \E enable_logging \in BOOLEAN :
          IF threads = <<>>
             THEN /\ cpc' = [cpc EXCEPT ![c] = "ret"]
                  /\ call' = [call EXCEPT ![c] =
                                 [Call("stop_cycle") EXCEPT
                                     !.enable_logging = enable_logging,
                                     !.result = "no cycle"]]
             ELSE /\ cpc' = [cpc EXCEPT ![c] = "sc_level"]
                  /\ call' = [call EXCEPT ![c] =
                                 [Call("stop_cycle") EXCEPT
                                     !.enable_logging = enable_logging,
                                     !.running = \E h \in Handles : Alive(h)]]
    /\ UNCHANGED <<replyVars, flagVars, sideVars, countVars, commsVars, microlabVars, threadVars>>

\* if enable_logging: setLevel(logging.DEBUG)
StopCycleSetLevel(c) ==
    /\ cpc[c] = "sc_level"
    /\ logLevel' = IF call[c].enable_logging THEN "DEBUG" ELSE logLevel
    /\ cpc' = [cpc EXCEPT ![c] = "sc_flag"]
    /\ UNCHANGED <<replyVars, flagVars, sideVars, countVars, commsVars, threads, stop_requested, threadVars, call>>

\* self._stop_requested = True
StopCycleSetFlag(c) ==
    /\ cpc[c] = "sc_flag"
    /\ stop_requested' = TRUE
    /\ cpc' = [cpc EXCEPT ![c] = "sc_join"]
    /\ UNCHANGED <<replyVars, flagVars, sideVars, countVars, commsVars, threads, logLevel, threadVars, call>>

\* self._threads[0].join(): the handle is read and the join begins
StopCycleJoin(c) ==
    /\ cpc[c] = "sc_join"
    /\ IF threads = <<>>
          THEN /\ cpc' = [cpc EXCEPT ![c] = "ret"]
               /\ call' = [call EXCEPT ![c].raised = IndexError]
          ELSE IF tpc[threads[1]] = "new"
          THEN /\ cpc' = [cpc EXCEPT ![c] = "ret"]
               /\ call' = [call EXCEPT ![c].raised = RuntimeError]
          ELSE /\ cpc' = [cpc EXCEPT ![c] = "sc_wait"]
               /\ call' = [call EXCEPT ![c].joined = threads[1]]
    /\ UNCHANGED <<replyVars, flagVars, sideVars, countVars, commsVars, microlabVars, threadVars>>

\* join returns once the thread has ended
StopCycleJoined(c) ==
    /\ cpc[c] = "sc_wait"
    /\ Finished(call[c].joined)
    /\ cpc' = [cpc EXCEPT ![c] = "ret"]
    /\ call' = [call EXCEPT ![c].result = "joined"]
    /\ UNCHANGED <<replyVars, flagVars, sideVars, countVars, commsVars, microlabVars, threadVars>>

(***************************************************************************)
(* Microlab._cycle_commands, run by the thread of Thread object h, and     *)
(* Microlab._reset_cycle.                                                  *)
(***************************************************************************)
Goto(h, pc) == tpc' = [tpc EXCEPT ![h] = pc]

\* what a step of _cycle_commands adds to the counts of thread h in a run
\* that counts: a command sent starts a new count; the poll of line 208 sent,
\* a poll answered with something other than 'Y', and the sleep of line 215
\* are counted; leaving the loop clears the count. A counted run gives a
\* command at most MaxPolls polls.
Counted(h) ==
    /\ counting' = counting
    /\ IF ~counting THEN count' = count
       ELSE /\ count' = [count EXCEPT ![h] =
                   IF tpc[h] = "cmd" /\ tpc'[h] = "cmd_recv" THEN NoCount
                   ELSE IF tpc[h] = "poll" /\ tpc'[h] = "poll_recv"
                      THEN [@ EXCEPT !.polls = @ + 1]
                   ELSE IF tpc[h] = "poll_recv" /\ tpc'[h] \in {"check", "poll"}
                      THEN [@ EXCEPT !.busy = @ + 1]
                   ELSE IF tpc[h] = "check" /\ tpc'[h] = "poll"
                      THEN [@ EXCEPT !.sleeps = @ + 1]
                   ELSE IF tpc'[h] \in {"halt", "crashed"} THEN NoCount
                   ELSE @]
            /\ count'[h].polls <= MaxPolls

\* setLevel(logging.ERROR) on the Comms logger
CycleStart(h) ==
    /\ tpc[h] = "start"
    /\ logLevel' = "ERROR"
    /\ Goto(h, "while")
    /\ UNCHANGED <<replyVars, flagVars, sideVars, commsVars, threads, stop_requested, idx, created, hist, callerVars>>
    /\ Counted(h)

\* while not self._stop_requested: for command in commands
\* a loop that ends without calling halt_execution
CycleWhileNoHalt(h) ==
    /\ tpc[h] = "while"
    /\ IF stop_requested THEN Goto(h, "reset_flag") ELSE Goto(h, "cmd")
    /\ idx' = [idx EXCEPT ![h] = 1]
    /\ UNCHANGED <<replyVars, flagVars, sideVars, commsVars, microlabVars, created, hist, callerVars>>
    /\ Counted(h)

CycleWhile(h) ==
    /\ tpc[h] = "while"
    /\ IF stop_requested THEN Goto(h, "halt") ELSE Goto(h, "cmd")
    /\ idx' = [idx EXCEPT ![h] = 1]
    /\ UNCHANGED <<replyVars, flagVars, sideVars, commsVars, microlabVars, created, hist, callerVars>>
    /\ Counted(h)

\* self.send_command(command, address): the request is sent
CycleSendCommand(h) ==
    /\ tpc[h] = "cmd"
    /\ BeginExchange(ThreadTid(h), Request(FIRST_ADDRESS, commands[idx[h]]))
    /\ Goto(h, "cmd_recv")
    /\ hist' = [hist EXCEPT ![h].sent = idx[h], ![h].polled = "none"]
    /\ UNCHANGED <<replyVars, flagVars, sideVars, microlabVars, idx, created, callerVars>>
    /\ Counted(h)

\* send_command returns (the result is discarded) or raises
CycleCommandReply(h) ==
    /\ tpc[h] = "cmd_recv"
    /\ \E recv \in DeviceReplies :
          IF send_receive(recv).raised # NoExc
             THEN Goto(h, "crashed") /\ hist' = [hist EXCEPT ![h] = NoHistory]
             ELSE Goto(h, "poll") /\ hist' = hist
    /\ EndExchange(ThreadTid(h))
    /\ UNCHANGED <<replyVars, flagVars, sideVars, microlabVars, idx, created, callerVars>>
    /\ Counted(h)

\* self._comms.send_receive(address + INSTRUMENT_DONE): the request is sent
CyclePoll(h) ==
    /\ tpc[h] = "poll"
    /\ BeginExchange(ThreadTid(h), Request(FIRST_ADDRESS, INSTRUMENT_DONE))
    /\ Goto(h, "poll_recv")
    /\ UNCHANGED <<replyVars, flagVars, sideVars, microlabVars, idx, created, hist, callerVars>>
    /\ Counted(h)

\* the poll's result [1] is compared with Y_INFO_RESPONSE: on 'Y' the for
\* loop goes to the next command, or back to the while test after the last
\* a poll loop that gives the cycle up when a poll fails
CyclePollReplyAbortOnFailure(h) ==
    /\ tpc[h] = "poll_recv"
    /\ \E recv \in DeviceReplies :
          LET o == send_receive(recv)
          IN  /\ hist' = [hist EXCEPT ![h] = IF o.raised # NoExc THEN NoHistory
                                              ELSE [@ EXCEPT !.polled = PollResult(o)]]
              /\ IF o.raised # NoExc
                    THEN Goto(h, "crashed") /\ idx' = idx
                 ELSE IF ~o.success
                    THEN Goto(h, "halt") /\ idx' = idx
                 ELSE IF o.data # Some(Y_INFO_RESPONSE)
                    THEN Goto(h, "check") /\ idx' = idx
                 ELSE IF idx[h] < NumCommands
                    THEN Goto(h, "cmd") /\ idx' = [idx EXCEPT ![h] = idx[h] + 1]
                 ELSE Goto(h, "while") /\ idx' = [idx EXCEPT ![h] = 1]
    /\ EndExchange(ThreadTid(h))
    /\ UNCHANGED <<replyVars, flagVars, sideVars, microlabVars, created, callerVars>>
    /\ Counted(h)

\* a poll loop that polls again without the delay
CyclePollReplyNoDelay(h) ==
    /\ tpc[h] = "poll_recv"
    /\ \E recv \in DeviceReplies :
          LET o == send_receive(recv)
          IN  /\ hist' = [hist EXCEPT ![h] = IF o.raised # NoExc THEN NoHistory
                                              ELSE [@ EXCEPT !.polled = PollResult(o)]]
              /\ IF o.raised # NoExc
                    THEN Goto(h, "crashed") /\ idx' = idx
                 ELSE IF o.data # Some(Y_INFO_RESPONSE)
                    THEN /\ IF stop_requested THEN Goto(h, "halt") ELSE Goto(h, "poll")
                         /\ idx' = idx
                 ELSE IF idx[h] < NumCommands
                    THEN Goto(h, "cmd") /\ idx' = [idx EXCEPT ![h] = idx[h] + 1]
                 ELSE Goto(h, "while") /\ idx' = [idx EXCEPT ![h] = 1]
    /\ EndExchange(ThreadTid(h))
    /\ UNCHANGED <<replyVars, flagVars, sideVars, microlabVars, created, callerVars>>
    /\ Counted(h)

\* a poll loop that is left on any successful reply
CyclePollReplyAnySuccess(h) ==
    /\ tpc[h] = "poll_recv"
    /\ \E recv \in DeviceReplies :
          LET o == send_receive(recv)
          IN  /\ hist' = [hist EXCEPT ![h] = IF o.raised # NoExc THEN NoHistory
                                              ELSE [@ EXCEPT !.polled = PollResult(o)]]
              /\ IF o.raised # NoExc
                    THEN Goto(h, "crashed") /\ idx' = idx
                 ELSE IF ~o.success
                    THEN Goto(h, "check") /\ idx' = idx
                 ELSE IF idx[h] < NumCommands
                    THEN Goto(h, "cmd") /\ idx' = [idx EXCEPT ![h] = idx[h] + 1]
                 ELSE Goto(h, "while") /\ idx' = [idx EXCEPT ![h] = 1]
    /\ EndExchange(ThreadTid(h))
    /\ UNCHANGED <<replyVars, flagVars, sideVars, microlabVars, created, callerVars>>
    /\ Counted(h)

\* a poll loop that keeps the lock from one poll of a command to the next
CyclePollReplyHoldingGate(h) ==
    /\ tpc[h] = "poll_recv"
    /\ \E recv \in DeviceReplies :
          LET o == send_receive(recv)
          IN  /\ hist' = [hist EXCEPT ![h] = IF o.raised # NoExc THEN NoHistory
                                              ELSE [@ EXCEPT !.polled = PollResult(o)]]
              /\ IF o.raised # NoExc
                    THEN Goto(h, "crashed") /\ idx' = idx /\ EndExchange(ThreadTid(h))
                 ELSE IF o.data # Some(Y_INFO_RESPONSE)
                    THEN /\ Goto(h, "check") /\ idx' = idx
                         /\ lock' = lock
                         /\ inflight' = {x \in inflight : x.by # ThreadTid(h)}
                 ELSE IF idx[h] < NumCommands
                    THEN /\ Goto(h, "cmd") /\ idx' = [idx EXCEPT ![h] = idx[h] + 1]
                         /\ EndExchange(ThreadTid(h))
                 ELSE /\ Goto(h, "while") /\ idx' = [idx EXCEPT ![h] = 1]
                      /\ EndExchange(ThreadTid(h))
    /\ UNCHANGED <<replyVars, flagVars, sideVars, microlabVars, created, callerVars>>
    /\ Counted(h)

CyclePollReply(h) ==
    /\ tpc[h] = "poll_recv"
    /\ \E recv \in DeviceReplies :
          LET o == send_receive(recv)
          IN  /\ hist' = [hist EXCEPT ![h] = IF o.raised # NoExc THEN NoHistory
                                              ELSE [@ EXCEPT !.polled = PollResult(o)]]
              /\ IF o.raised # NoExc
                    THEN Goto(h, "crashed") /\ idx' = idx
                 ELSE IF o.data # Some(Y_INFO_RESPONSE)
                    THEN Goto(h, "check") /\ idx' = idx
                 ELSE IF idx[h] < NumCommands
                    THEN Goto(h, "cmd") /\ idx' = [idx EXCEPT ![h] = idx[h] + 1]
                 ELSE Goto(h, "while") /\ idx' = [idx EXCEPT ![h] = 1]
    /\ EndExchange(ThreadTid(h))
    /\ UNCHANGED <<replyVars, flagVars, sideVars, microlabVars, created, callerVars>>
    /\ Counted(h)

\* if self._stop_requested: reset and return; else sleep(0.1) and poll again
CycleCheckStop(h) ==
    /\ tpc[h] = "check"
    /\ IF stop_requested THEN Goto(h, "halt") ELSE Goto(h, "poll")
    /\ hist' = [hist EXCEPT ![h].polled = "none"]
    /\ UNCHANGED <<replyVars, flagVars, sideVars, commsVars, microlabVars, idx, created, callerVars>>
    /\ Counted(h)

\* _reset_cycle: self.halt_execution(address), the request is sent
ResetCycleHalt(h) ==
    /\ tpc[h] = "halt"
    /\ BeginExchange(ThreadTid(h), Request(FIRST_ADDRESS, "K"))
    /\ Goto(h, "halt_recv")
    /\ hist' = [hist EXCEPT ![h] = [NoHistory EXCEPT !.halted = TRUE]]
    /\ UNCHANGED <<replyVars, flagVars, sideVars, microlabVars, idx, created, callerVars>>
    /\ Counted(h)

\* halt_execution logs the outcome and returns, or the exchange raises
ResetCycleHaltReply(h) ==
    /\ tpc[h] = "halt_recv"
    /\ \E recv \in DeviceReplies :
          IF send_receive(recv).raised # NoExc
             THEN Goto(h, "crashed") /\ hist' = [hist EXCEPT ![h] = NoHistory]
             ELSE Goto(h, "reset_flag") /\ hist' = hist
    /\ EndExchange(ThreadTid(h))
    /\ UNCHANGED <<replyVars, flagVars, sideVars, microlabVars, idx, created, callerVars>>
    /\ Counted(h)

\* _reset_cycle: self._stop_requested = False
ResetCycleClearFlag(h) ==
    /\ tpc[h] = "reset_flag"
    /\ stop_requested' = FALSE
    /\ Goto(h, "reset_clear")
    /\ UNCHANGED <<replyVars, flagVars, sideVars, commsVars, threads, logLevel, idx, created, hist, callerVars>>
    /\ Counted(h)

\* _reset_cycle: self._threads.clear(); _cycle_commands returns and the
\* thread ends
ResetCycleClearThreads(h) ==
    /\ tpc[h] = "reset_clear"
    /\ threads' = <<>>
    /\ Goto(h, "done")
    /\ hist' = [hist EXCEPT ![h] = NoHistory]
    /\ UNCHANGED <<replyVars, flagVars, sideVars, commsVars, stop_requested, logLevel, idx, created, callerVars>>
    /\ Counted(h)

(***************************************************************************)
(* microlab.py: total_system_reset, run by a caller thread.                *)
(***************************************************************************)
\* sys.exit() raises SystemExit in the thread that calls it
SystemExit == "SystemExit"

\* self._comms.send_receive(f"{address}!"), up to the request
TotalSystemReset(c) ==
    /\ cpc[c] = "idle"
    /\ BeginExchange(CallerTid(c), Request(FIRST_ADDRESS, "!"))
    /\ cpc' = [cpc EXCEPT ![c] = "tsr_recv"]
    /\ call' = [call EXCEPT ![c] = Call("total_system_reset")]
    /\ UNCHANGED <<replyVars, flagVars, sideVars, countVars, microlabVars, threadVars>>

\* the reply: on success sys.exit() ends the calling thread, and only it; the
\* cycle thread is not a daemon thread and runs on
TotalSystemResetReply(c) ==
    /\ cpc[c] = "tsr_recv"
    /\ \E recv \in DeviceReplies :
          LET o == send_receive(recv)
          IN  IF o.raised # NoExc
                 THEN /\ cpc' = [cpc EXCEPT ![c] = "ret"]
                      /\ call' = [call EXCEPT ![c].raised = o.raised]
              ELSE IF o.success
                 THEN /\ cpc' = [cpc EXCEPT ![c] = "exited"]
                      /\ call' = [call EXCEPT ![c].raised = SystemExit,
                                               ![c].result = "reset"]
              ELSE /\ cpc' = [cpc EXCEPT ![c] = "ret"]
                   /\ call' = [call EXCEPT ![c].result = "reset failed"]
    /\ EndExchange(CallerTid(c))
    /\ UNCHANGED <<replyVars, flagVars, sideVars, countVars, microlabVars, threadVars>>

(***************************************************************************)
(* microlab.py: initialise, run by a caller thread.                        *)
(***************************************************************************)
\* self._comms.send_receive("aXR"), up to the request
Initialise(c) ==
    /\ cpc[c] = "idle"
    /\ BeginExchange(CallerTid(c), Request("a", "XR"))
    /\ cpc' = [cpc EXCEPT ![c] = "init_recv"]
    /\ call' = [call EXCEPT ![c] = Call("initialise")]
    /\ UNCHANGED <<replyVars, flagVars, sideVars, countVars, microlabVars, threadVars>>

\* an initialise that sets the flag whatever the transaction gave
InitialiseReplyUnchecked(c) ==
    /\ cpc[c] = "init_recv"
    /\ \E recv \in DeviceReplies :
          LET o == send_receive(recv)
          IN  IF o.raised # NoExc
                 THEN /\ call' = [call EXCEPT ![c].raised = o.raised]
                      /\ initialised' = initialised
              ELSE /\ call' = [call EXCEPT ![c].result =
                                  IF o.success THEN "debug: Initialise successful"
                                  ELSE "error: Initialise failed"]
                   /\ initialised' = TRUE
    /\ EndExchange(CallerTid(c))
    /\ cpc' = [cpc EXCEPT ![c] = "ret"]
    /\ UNCHANGED <<replyVars, sideVars, countVars, microlabVars, threadVars>>

\* the reply: an error is logged and the flag left alone unless the
\* transaction succeeded
InitialiseReply(c) ==
    /\ cpc[c] = "init_recv"
    /\ \E recv \in DeviceReplies :
          LET o == send_receive(recv)
          IN  IF o.raised # NoExc
                 THEN /\ call' = [call EXCEPT ![c].raised = o.raised]
                      /\ initialised' = initialised
              ELSE IF ~o.success
                 THEN /\ call' = [call EXCEPT ![c].result = "error: Initialise failed"]
                      /\ initialised' = initialised
              ELSE /\ call' = [call EXCEPT ![c].result = "debug: Initialise successful"]
                   /\ initialised' = TRUE
    /\ EndExchange(CallerTid(c))
    /\ cpc' = [cpc EXCEPT ![c] = "ret"]
    /\ UNCHANGED <<replyVars, sideVars, countVars, microlabVars, threadVars>>

(***************************************************************************)
(* The driver with its foreground threads and its cycle thread.            *)
(***************************************************************************)
CallerStep(c) ==
    \/ CallSendReceive(c)
    \/ SendReceiveReply(c)
    \/ CallSendAutoAddress(c)
    \/ SendAutoAddressReply(c)
    \/ ReturnToCaller(c)
    \/ CycleCommands(c)
    \/ CycleCommandsAppend(c)
    \/ CycleCommandsStart(c)
    \/ StopCycle(c)
    \/ StopCycleSetLevel(c)
    \/ StopCycleSetFlag(c)
    \/ StopCycleJoin(c)
    \/ StopCycleJoined(c)

ThreadStep(h) ==
    \/ CycleStart(h)
    \/ CycleWhile(h)
    \/ CycleSendCommand(h)
    \/ CycleCommandReply(h)
    \/ CyclePoll(h)
    \/ CyclePollReply(h)
    \/ CycleCheckStop(h)
    \/ ResetCycleHalt(h)
    \/ ResetCycleHaltReply(h)
    \/ ResetCycleClearFlag(h)
    \/ ResetCycleClearThreads(h)

Next ==
    \/ \E c \in Callers : CallerStep(c)
    \/ \E h \in Handles : ThreadStep(h)

Spec == Init /\ [][Next]_vars

(***************************************************************************)
(* One controller starting and stopping cycles and resetting the device,   *)
(* with the polls and delays of each command counted.                      *)
(***************************************************************************)
CycleCallerStep(c) ==
    \/ ReturnToCaller(c)
    \/ CycleCommands(c)
    \/ CycleCommandsAppend(c)
    \/ CycleCommandsStart(c)
    \/ StopCycle(c)
    \/ StopCycleSetLevel(c)
    \/ StopCycleSetFlag(c)
    \/ StopCycleJoin(c)
    \/ StopCycleJoined(c)
    \/ TotalSystemReset(c)
    \/ TotalSystemResetReply(c)
    \/ Initialise(c)
    \/ InitialiseReply(c)

\* the one thread of the controller that calls cycle_commands and stop_cycle
Controller == CHOOSE c \in Callers : TRUE

InitCycle == InitReplyVars /\ InitDriver /\ InitCount(TRUE) /\ InitSide

NextCycle ==
    \/ CycleCallerStep(Controller)
    \/ \E h \in Handles : ThreadStep(h)

SpecCycle == InitCycle /\ [][NextCycle]_vars

(***************************************************************************)
(* One transaction, as a function of what the device delivers.             *)
(***************************************************************************)
InitReply == InitReplyVars /\ InitDriver /\ InitCount(FALSE) /\ InitSide

\* the device sends one more byte before the receive returns
DeviceSendsByte ==
    /\ phase = "recv"
    /\ Len(recvd.bytes) < MaxLen
    /\ \E b \in ReplyBytes : recvd' = RecvBytes(Append(recvd.bytes, b))
    /\ UNCHANGED <<phase, outcome, recvd2, outcome2, driverVars, sideVars>>

\* the device sends nothing within TIMEOUT
DeviceSilent ==
    /\ phase = "recv"
    /\ recvd = RecvBytes(<<>>)
    /\ recvd' = RecvTimeout
    /\ phase' = "done"
    /\ outcome' = send_receive(recvd')
    /\ UNCHANGED <<recvd2, outcome2, driverVars, sideVars>>

\* the receive returns what has arrived; send_receive classifies it
Transact ==
    /\ phase = "recv"
    /\ phase' = "done"
    /\ outcome' = send_receive(recvd)
    /\ UNCHANGED <<recvd, recvd2, outcome2, driverVars, sideVars>>

NextReply == DeviceSendsByte \/ DeviceSilent \/ Transact

SpecReply == InitReply /\ [][NextReply]_vars

(***************************************************************************)
(* Two transactions side by side, to compare the outcomes of two replies.  *)
(***************************************************************************)
\* the bytes the two compared replies are made of
PairBytes == {ACK, NACK, CR, 89, 200}

InitReplyPair == InitReply

DeviceSendsFirst ==
    /\ phase = "recv"
    /\ Len(recvd.bytes) < MaxLen
    /\ \E b \in PairBytes : recvd' = RecvBytes(Append(recvd.bytes, b))
    /\ UNCHANGED <<phase, outcome, recvd2, outcome2, driverVars, sideVars>>

DeviceSendsSecond ==
    /\ phase = "recv"
    /\ Len(recvd2.bytes) < MaxLen2
    /\ \E b \in PairBytes : recvd2' = RecvBytes(Append(recvd2.bytes, b))
    /\ UNCHANGED <<phase, outcome, recvd, outcome2, driverVars, sideVars>>

TransactBoth ==
    /\ phase = "recv"
    /\ phase' = "done"
    /\ outcome' = send_receive(recvd)
    /\ outcome2' = send_receive(recvd2)
    /\ UNCHANGED <<recvd, recvd2, driverVars, sideVars>>

NextReplyPair == DeviceSendsFirst \/ DeviceSendsSecond \/ TransactBoth

SpecReplyPair == InitReplyPair /\ [][NextReplyPair]_vars

(***************************************************************************)
(* One auto_address call, as a function of what the device delivers.       *)
(***************************************************************************)
\* the bytes the reply to the auto-address request is made of: '1', 'a', 'b',
\* CR, NACK and a byte that is not ascii
AddressBytes == {49, 97, 98, CR, NACK, 200}

DeviceSendsAddressByte ==
    /\ phase = "recv"
    /\ Len(recvd.bytes) < MaxLen
    /\ \E b \in AddressBytes : recvd' = RecvBytes(Append(recvd.bytes, b))
    /\ UNCHANGED <<phase, outcome, recvd2, outcome2, driverVars, sideVars>>

AutoAddressTimeout ==
    /\ phase = "recv"
    /\ recvd = RecvBytes(<<>>)
    /\ recvd' = RecvTimeout
    /\ phase' = "done"
    /\ outcome' = auto_address(recvd')
    /\ UNCHANGED <<recvd2, outcome2, driverVars, sideVars>>

AutoAddress ==
    /\ phase = "recv"
    /\ phase' = "done"
    /\ outcome' = auto_address(recvd)
    /\ UNCHANGED <<recvd, recvd2, outcome2, driverVars, sideVars>>

NextAddress == DeviceSendsAddressByte \/ AutoAddressTimeout \/ AutoAddress

SpecAddress == InitReply /\ [][NextAddress]_vars

(***************************************************************************)
(* One send_command call, as a function of what the device delivers.       *)
(***************************************************************************)
SendCommandTimeout ==
    /\ phase = "recv"
    /\ recvd = RecvBytes(<<>>)
    /\ recvd' = RecvTimeout
    /\ phase' = "done"
    /\ outcome' = send_command(recvd')
    /\ UNCHANGED <<recvd2, outcome2, driverVars, sideVars>>

SendCommand ==
    /\ phase = "recv"
    /\ phase' = "done"
    /\ outcome' = send_command(recvd)
    /\ UNCHANGED <<recvd, recvd2, outcome2, driverVars, sideVars>>

NextCommand == DeviceSendsByte \/ SendCommandTimeout \/ SendCommand

SpecCommand == InitReply /\ [][NextCommand]_vars

(***************************************************************************)
(* commands/syringe_move.py: the syringe sub-commands, as the protocol     *)
(* text and the tests of the repository describe them.                     *)
(***************************************************************************)
\* the step range of a syringe move, the speed range, the return-steps range
MIN_SYRINGE_MOVE == 0
MAX_SYRINGE_MOVE == 48000
MIN_SPEED == 2
MAX_SPEED == 3692
MIN_RETURN_STEPS == 0
MAX_RETURN_STEPS == 1000

\* Side.LEFT.value and Side.RIGHT.value
SideLeft == 66
SideRight == 67

\* the operation letters 'P', 'D', 'M' and the field tags 'S', 'N'
OperationLetter == [SyringePickup |-> 80, SyringeDispense |-> 68,
                    SyringeAbsoluteMove |-> 77]
SpeedTag == 83
ReturnStepsTag == 78

ValueError == "ValueError"

\* an argument: an int, a float (50.0 is [type |-> "float", n |-> 50]), or
\* left out
IntArg(n) == [type |-> "int", n |-> n]
FloatArg(n) == [type |-> "float", n |-> n]
NoArg == [type |-> "none", n |-> 0]

\* str(n) of an int n >= 0, as character codes
RECURSIVE str(_)
str(n) == IF n < 10 THEN <<48 + n>> ELSE Append(str(n \div 10), 48 + (n % 10))

\* a debug record of the syringe_move logger
Debug(text, what) == [level |-> "debug", text |-> text, what |-> what]

\* the check of one optional argument: "ok" (an int in range), "none" (left
\* out), "ignored" (not an int), "invalid" (an int outside the range)
OptionalArg(arg, lo, hi) ==
    IF arg.type = "none" THEN "none"
    ELSE IF arg.type # "int" THEN "ignored"
    ELSE IF arg.n < lo \/ arg.n > hi THEN "invalid"
    ELSE "ok"

\* a constructor that renders the return steps before the speed
SyringeMoveSwapped(kind, side, value, speed, return_steps) ==
    [raised |-> NoExc,
     string |-> <<side, OperationLetter[kind]>> \o str(IF value < 0 THEN 0 ELSE value)
                 \o (IF return_steps.type = "int"
                        THEN <<ReturnStepsTag>> \o str(IF return_steps.n < 0 THEN 0 ELSE return_steps.n)
                        ELSE <<>>)
                 \o (IF speed.type = "int"
                        THEN <<SpeedTag>> \o str(IF speed.n < 0 THEN 0 ELSE speed.n)
                        ELSE <<>>),
     log |-> <<>>]

\* a constructor that takes a non-integer argument in silence
SyringeMoveSilent(kind, side, value, speed, return_steps) ==
    [raised |-> NoExc,
     string |-> <<side, OperationLetter[kind]>> \o str(IF value < 0 THEN 0 ELSE value)
                 \o (IF speed.type = "int"
                        THEN <<SpeedTag>> \o str(IF speed.n < 0 THEN 0 ELSE speed.n)
                        ELSE <<>>)
                 \o (IF return_steps.type = "int"
                        THEN <<ReturnStepsTag>> \o str(IF return_steps.n < 0 THEN 0 ELSE return_steps.n)
                        ELSE <<>>),
     log |-> <<>>]

\* SyringePickup / SyringeDispense / SyringeAbsoluteMove (side, value, speed,
\* return_steps): the exception raised, the attribute string, the debug log
SyringeMove(kind, side, value, speed, return_steps) ==
    LET s == OptionalArg(speed, MIN_SPEED, MAX_SPEED)
        r == OptionalArg(return_steps, MIN_RETURN_STEPS, MAX_RETURN_STEPS)
        notices ==
            (IF s = "ignored"
                THEN <<Debug("Ignoring non-integer argument", "speed")>> ELSE <<>>)
            \o (IF r = "ignored"
                   THEN <<Debug("Ignoring non-integer argument", "return steps")>>
                   ELSE <<>>)
    IN  IF value < MIN_SYRINGE_MOVE \/ value > MAX_SYRINGE_MOVE
           THEN [raised |-> ValueError, string |-> <<>>,
                 log |-> <<Debug("outside acceptable range", kind)>>]
        ELSE IF s = "invalid"
           THEN [raised |-> ValueError, string |-> <<>>,
                 log |-> <<Debug("outside acceptable range", "speed")>>]
        ELSE IF r = "invalid"
           THEN [raised |-> ValueError, string |-> <<>>,
                 log |-> <<Debug("outside acceptable range", "return steps")>>]
        ELSE [raised |-> NoExc,
              string |-> <<side, OperationLetter[kind]>> \o str(value)
                          \o (IF s = "ok" THEN <<SpeedTag>> \o str(speed.n) ELSE <<>>)
                          \o (IF r = "ok" THEN <<ReturnStepsTag>> \o str(return_steps.n)
                                           ELSE <<>>),
              log |-> notices]

\* the callers' step after the construction: Command([subcommand]) goes to
\* send_command unless the constructor raised
SendSubCommandUnchecked(sub) ==
    [pc |-> "done", raised |-> NoExc, log |-> sub.log, sent |-> <<sub.string>>]

SendSubCommand(sub) ==
    IF sub.raised # NoExc
       THEN [pc |-> "done", raised |-> sub.raised, log |-> sub.log, sent |-> <<>>]
       ELSE [pc |-> "done", raised |-> NoExc, log |-> sub.log, sent |-> <<sub.string>>]

SyringeKinds == {"SyringePickup", "SyringeDispense", "SyringeAbsoluteMove"}
StepValues == {MIN_SYRINGE_MOVE - 20, MIN_SYRINGE_MOVE, 3, MAX_SYRINGE_MOVE,
               MAX_SYRINGE_MOVE + 1}
SpeedArgs == {NoArg, IntArg(0 - 300), IntArg(MIN_SPEED), IntArg(20),
              IntArg(MAX_SPEED + 1), FloatArg(50)}
ReturnStepsArgs == {NoArg, IntArg(0 - 300), IntArg(40), IntArg(MAX_RETURN_STEPS + 1),
                    FloatArg(50)}
SyringeInputs == [kind : SyringeKinds, side : {SideLeft, SideRight},
                  value : StepValues, speed : SpeedArgs,
                  return_steps : ReturnStepsArgs]

InitSyringe ==
    /\ InitReplyVars /\ InitDriver /\ InitCount(FALSE)
    /\ input \in SyringeInputs
    /\ output = [pc |-> "call", raised |-> NoExc, log |-> <<>>, sent |-> <<>>]

\* one syringe move: construct the sub-command, then send it
SyringeCommand ==
    /\ input \in SyringeInputs
    /\ output.pc = "call"
    /\ output' = SendSubCommand(SyringeMove(input.kind, input.side, input.value,
                                            input.speed, input.return_steps))
    /\ UNCHANGED <<replyVars, driverVars, input>>

NextSyringe == SyringeCommand

SpecSyringe == InitSyringe /\ [][NextSyringe]_vars

(***************************************************************************)
(* commands/instrument_status_request.py: the status decoders, as the      *)
(* protocol text and the tests of the repository describe them, on top of  *)
(* Comms.send_receive.                                                     *)
(***************************************************************************)
ByteStatusDecoders == {"InstrumentErrorStatus", "InstrumentBusyStatus",
                       "InstrumentStatusRequest"}
StatusDecoders == {"TimerStatus", "InstrumentErrorRequest"} \cup ByteStatusDecoders

\* _request_string of each decoder
request_string == [TimerStatus |-> "E3", InstrumentErrorRequest |-> "E2",
                   InstrumentErrorStatus |-> "T2", InstrumentBusyStatus |-> "T1",
                   InstrumentStatusRequest |-> "E1"]

\* the name a decoder gives its request in the error record
request_name == [TimerStatus |-> "timer request",
                 InstrumentErrorRequest |-> "instrument error request",
                 InstrumentErrorStatus |-> "instrument error status",
                 InstrumentBusyStatus |-> "instrument busy status",
                 InstrumentStatusRequest |-> "instrument status request"]

\* _response_map of the byte-status decoders, most significant bit first
response_map ==
    [InstrumentErrorStatus |->
        <<"", "", "", "", "Right syringe error", "Right valve error",
          "Left syringe error", "Left valve error">>,
     InstrumentBusyStatus |->
        <<"", "", "Handprobe/Foot switch active", "Prime/Step active",
          "Right syringe busy", "Right valve busy", "Left syringe busy",
          "Left valve busy">>,
     InstrumentStatusRequest |->
        <<"", "", "", "Instrument error (valve or syringe error)", "Syntax error",
          "Valve drive(s) busy", "Syringe drive(s) busy",
          "Instrument idle, command buffer is not empty">>]

_syringes_response_map ==
    <<"", "", "", "do not exist", "initialisation error", "stroke too large",
      "overload error", "not initialised">>
_valves_response_map ==
    <<"", "", "", "do not exist", "", "overload error", "initialisation error",
      "not initialised">>

\* the components of the instrument error reply, in the order of its characters
Components == <<"Left syringes", "Left valves", "Right syringes", "Right valves">>
ComponentMap == <<_syringes_response_map, _valves_response_map,
                  _syringes_response_map, _valves_response_map>>

\* bit k (0 the lowest) of the byte b
Bit(b, k) == (b \div (2 ^ k)) % 2 = 1

\* the labels read with the table taken lowest bit first
RECURSIVE LabelsLsbFirst(_, _, _)
LabelsLsbFirst(b, map, i) ==
    IF i > Len(map) THEN <<>>
    ELSE (IF Bit(b, i - 1) /\ map[i] # "" THEN <<map[i]>> ELSE <<>>)
         \o LabelsLsbFirst(b, map, i + 1)

\* the labels of the set bits of b from entry i of the table on: entry i
\* stands for bit Len(map) - i, empty labels are left out
RECURSIVE Labels(_, _, _)
Labels(b, map, i) ==
    IF i > Len(map) THEN <<>>
    ELSE (IF Bit(b, Len(map) - i) /\ map[i] # "" THEN <<map[i]>> ELSE <<>>)
         \o Labels(b, map, i + 1)

Info(what, labels) == [level |-> "info", what |-> what, labels |-> labels]
Error(what) == [level |-> "error", what |-> what, labels |-> <<"Unable to carry out">>]

\* a result of request(): None, or a tuple of numbers (one number for a byte
\* status, 1 or 0 for the timer's True or False, four for the error request)
NoValue == [isNone |-> TRUE, val |-> <<>>]
Value(v) == [isNone |-> FALSE, val |-> v]

\* the info record of one component of the instrument error reply
ComponentInfo(i, b) ==
    LET l == Labels(b, ComponentMap[i], 1)
    IN  Info(Components[i], IF l = <<>> THEN <<"No known errors">> ELSE l)

\* an error request that reads the reply in the order syringes, then valves
InstrumentErrorDecodePaired(data) ==
    [result |-> Value(<<data[1], data[3], data[2], data[4]>>),
     log |-> <<ComponentInfo(1, data[1]), ComponentInfo(2, data[3]),
               ComponentInfo(3, data[2]), ComponentInfo(4, data[4])>>]

\* InstrumentErrorRequest: the four characters of the payload
InstrumentErrorDecode(data) ==
    [result |-> Value([i \in 1..4 |-> data[i]]),
     log |-> [i \in 1..4 |-> ComponentInfo(i, data[i])]]

\* the decoding of a successful payload
Decode(decoder, data) ==
    IF decoder = "TimerStatus"
       THEN IF data = <<65>>
               THEN [result |-> Value(<<1>>), log |-> <<Info("timer", <<"Timer is busy">>)>>]
               ELSE [result |-> Value(<<0>>), log |-> <<Info("timer", <<"Timer is not busy">>)>>]
    ELSE IF decoder = "InstrumentErrorRequest" THEN InstrumentErrorDecode(data)
    ELSE [result |-> Value(<<data[1]>>),
          log |-> <<Info(request_name[decoder],
                         Labels(data[1], response_map[decoder], 1))>>]

\* request(address) of a decoder, the device's answer being recv
StatusRequest(decoder, address, recv) ==
    LET r == send_receive(recv)
        requests == <<Request(address, request_string[decoder])>>
    IN  IF r.raised # NoExc
           THEN [pc |-> "done", raised |-> r.raised, result |-> NoValue,
                 log |-> <<>>, requests |-> requests]
        ELSE IF ~r.success
           THEN [pc |-> "done", raised |-> NoExc, result |-> NoValue,
                 log |-> <<Error(request_name[decoder])>>, requests |-> requests]
        ELSE LET d == Decode(decoder, r.data.str)
             IN  [pc |-> "done", raised |-> NoExc, result |-> d.result,
                  log |-> d.log, requests |-> requests]

\* what the device may answer to a status request: nothing in time, a closed
\* stream, NACK, bytes that are not ascii, or ACK and the payload
FailureReplies == {RecvTimeout, RecvBytes(<<>>), RecvBytes(<<NACK, CR>>),
                   RecvBytes(<<200, CR>>)}
StatusBytes == {48, 64, 65, 71, 74, 95, 127}
ErrorBytes == {64, 65, 66}
StatusPayloads(decoder) ==
    IF decoder = "TimerStatus" THEN {<<65>>, <<64>>}
    ELSE IF decoder = "InstrumentErrorRequest" THEN [1..4 -> ErrorBytes]
    ELSE {<<b>> : b \in StatusBytes}
AckReply(payload) == RecvBytes(<<ACK>> \o payload \o <<CR>>)
StatusAddresses == {FIRST_ADDRESS, "d"}
StatusInputs ==
    UNION {[decoder : {d}, address : StatusAddresses,
            recv : FailureReplies \cup {AckReply(q) : q \in StatusPayloads(d)}]
           : d \in StatusDecoders}

InitStatus ==
    /\ InitReplyVars /\ InitDriver /\ InitCount(FALSE)
    /\ input \in StatusInputs
    /\ output = [pc |-> "call", raised |-> NoExc, result |-> NoValue,
                 log |-> <<>>, requests |-> <<>>]

\* one call of request(address)
RequestStatus ==
    /\ input \in StatusInputs
    /\ output.pc = "call"
    /\ output' = StatusRequest(input.decoder, input.address, input.recv)
    /\ UNCHANGED <<replyVars, driverVars, input>>

NextStatus == RequestStatus

SpecStatus == InitStatus /\ [][NextStatus]_vars

(***************************************************************************)
(* wrapper.py: the PV getters and the monitor loop.                        *)
(***************************************************************************)
\* self._parameter_map and self._busy_parameters: the PVs in dict order
_parameter_map ==
    <<"right_valve_position_in", "left_valve_position_in",
      "right_syringe_speed_in", "left_syringe_speed_in",
      "right_valve_speed_in", "left_valve_speed_in",
      "right_syringe_return_steps_in", "left_syringe_return_steps_in",
      "right_syringe_backoff_steps_in", "left_syringe_backoff_steps_in",
      "syringe_error", "valve_error", "instrument_error_status",
      "right_syringe_error", "left_syringe_error", "instrument_busy_status",
      "detailed_rsyringe_error", "detailed_lsyringe_error",
      "detailed_rvalve_error", "detailed_lvalve_error",
      "instrument_status_request">>
_busy_parameters == <<"timer_busy_status", "command_buffer_empty", "instrument_idle">>

\* the responses '*' and 'N' of the information requests
AST_INFO_RESPONSE == <<42>>
N_INFO_RESPONSE == <<78>>

\* what a request hands to its getter: None, or a str (s), an int (n), a
\* bool (b) or a tuple of ints (q)
NoResponse == [isNone |-> TRUE, b |-> FALSE, n |-> 0, s |-> <<>>, q |-> <<>>]
StrResponse(s) == [isNone |-> FALSE, b |-> FALSE, n |-> 0, s |-> s, q |-> <<>>]
IntResponse(n) == [isNone |-> FALSE, b |-> FALSE, n |-> n, s |-> <<>>, q |-> <<>>]
BoolResponse(b) == [isNone |-> FALSE, b |-> b, n |-> 0, s |-> <<>>, q |-> <<>>]
TupleResponse(q) == [isNone |-> FALSE, b |-> FALSE, n |-> 0, s |-> <<>>, q |-> q]

\* the value a getter hands to the PV: None, a bool, an int or a str
NoneValue == [t |-> "None", b |-> FALSE, n |-> 0, s |-> ""]
BoolValue(b) == [t |-> "bool", b |-> b, n |-> 0, s |-> ""]
IntValue(n) == [t |-> "int", b |-> FALSE, n |-> n, s |-> ""]
StrValue(s) == [t |-> "str", b |-> FALSE, n |-> 0, s |-> s]

\* a & b of two ints >= 0
RECURSIVE BitAnd(_, _)
BitAnd(x, y) ==
    IF x = 0 \/ y = 0 THEN 0
    ELSE 2 * BitAnd(x \div 2, y \div 2) + (IF x % 2 = 1 /\ y % 2 = 1 THEN 1 ELSE 0)

_get_last_n_bits(byte, n) == BitAnd(byte, 2 ^ n - 1)

Result(value, alarm_level) == [value |-> value, alarm_level |-> alarm_level]

_return_invalid_alarm_when_request_is_none(response, return_true_if_match, return_alarm_if_true) ==
    IF response.isNone THEN Result(NoneValue, "INVALID_ALARM")
    ELSE LET state == response.s \in return_true_if_match
         IN  IF return_alarm_if_true /\ state
                THEN Result(BoolValue(state), "MAJOR_ALARM")
                ELSE Result(BoolValue(state), "NO_ALARM")

_get_individual_syringe_error_status(response, error) ==
    IF response.isNone THEN Result(StrValue("Request Error"), "INVALID_ALARM")
    ELSE IF BitAnd(response.n, error) # 0
       THEN Result(StrValue("Syringe Error"), "MAJOR_ALARM")
    ELSE Result(StrValue("Ready"), "NO_ALARM")

_return_invalid_alarm_when_parameter_is_none(response) ==
    IF response.isNone THEN Result(NoneValue, "INVALID_ALARM")
    ELSE Result(IntValue(response.n), "NO_ALARM")

_return_major_alarm_when_bit_is_true(response, alarm_byte, response_subbyte) ==
    IF BitAnd(response, alarm_byte) # 0
       THEN Result(IntValue(response_subbyte), "MAJOR_ALARM")
       ELSE Result(IntValue(response_subbyte), "NO_ALARM")

get_instrument_error_status(response) ==
    IF response.isNone THEN Result(NoneValue, "INVALID_ALARM")
    ELSE _return_major_alarm_when_bit_is_true(response.n, 15,
                                              _get_last_n_bits(response.n, 4))

get_instrument_busy_status(response) ==
    IF response.isNone THEN Result(NoneValue, "INVALID_ALARM")
    ELSE _return_major_alarm_when_bit_is_true(response.n, 0,
                                              _get_last_n_bits(response.n, 2))

get_instrument_status_request(response) ==
    IF response.isNone THEN Result(NoneValue, "INVALID_ALARM")
    ELSE _return_major_alarm_when_bit_is_true(
             response.n, 30, _get_last_n_bits(response.n, 5) \div 8)

get_timer_busy_status(response) ==
    IF response.isNone THEN Result(NoneValue, "INVALID_ALARM")
    ELSE Result(BoolValue(response.b), "NO_ALARM")

\* a getter that counts the bytes of the tuple from its end
get_detailed_syringe_valve_error_reversed(response, index) ==
    IF response.isNone THEN Result(NoneValue, "INVALID_ALARM")
    ELSE _return_major_alarm_when_bit_is_true(
             response.q[4 - index], 31, _get_last_n_bits(response.q[4 - index], 5))

\* the index counts from 0
get_detailed_syringe_valve_error(response, index) ==
    IF response.isNone THEN Result(NoneValue, "INVALID_ALARM")
    ELSE _return_major_alarm_when_bit_is_true(
             response.q[index + 1], 31, _get_last_n_bits(response.q[index + 1], 5))

\* the getter of each PV of the two maps, on the response of its request
Getter(pv, response) ==
    CASE pv \in {"syringe_error", "valve_error"} ->
           _return_invalid_alarm_when_request_is_none(response, {Y_INFO_RESPONSE}, TRUE)
      [] pv = "instrument_idle" ->
           _return_invalid_alarm_when_request_is_none(response, {AST_INFO_RESPONSE}, FALSE)
      [] pv = "command_buffer_empty" ->
           _return_invalid_alarm_when_request_is_none(
               response, {N_INFO_RESPONSE, AST_INFO_RESPONSE}, FALSE)
      [] pv = "right_syringe_error" -> _get_individual_syringe_error_status(response, 8)
      [] pv = "left_syringe_error" -> _get_individual_syringe_error_status(response, 2)
      [] pv = "instrument_error_status" -> get_instrument_error_status(response)
      [] pv = "instrument_busy_status" -> get_instrument_busy_status(response)
      [] pv = "instrument_status_request" -> get_instrument_status_request(response)
      [] pv = "timer_busy_status" -> get_timer_busy_status(response)
      [] pv = "detailed_rsyringe_error" -> get_detailed_syringe_valve_error(response, 2)
      [] pv = "detailed_lsyringe_error" -> get_detailed_syringe_valve_error(response, 0)
      [] pv = "detailed_rvalve_error" -> get_detailed_syringe_valve_error(response, 3)
      [] pv = "detailed_lvalve_error" -> get_detailed_syringe_valve_error(response, 1)
      [] OTHER -> _return_invalid_alarm_when_parameter_is_none(response)

\* what the request behind each getter can hand back
Responses(pv) ==
    {NoResponse} \cup
    CASE pv \in {"syringe_error", "valve_error", "instrument_idle",
                 "command_buffer_empty"} ->
           {StrResponse(Y_INFO_RESPONSE), StrResponse(N_INFO_RESPONSE),
            StrResponse(AST_INFO_RESPONSE)}
      [] pv \in {"right_syringe_error", "left_syringe_error",
                 "instrument_error_status", "instrument_busy_status",
                 "instrument_status_request"} ->
           {IntResponse(64), IntResponse(66), IntResponse(72)}
      [] pv = "timer_busy_status" -> {BoolResponse(TRUE), BoolResponse(FALSE)}
      [] pv \in {"detailed_rsyringe_error", "detailed_lsyringe_error",
                 "detailed_rvalve_error", "detailed_lvalve_error"} ->
           {TupleResponse(<<64, 64, 64, 64>>), TupleResponse(<<65, 66, 68, 72>>),
            TupleResponse(<<96, 64, 80, 64>>), TupleResponse(<<64, 95, 64, 127>>)}
      [] OTHER -> {IntResponse(0), IntResponse(7)}

\* a record: its value, its alarm severity and its alarm status
InitialRecord ==
    [value |-> [t |-> "initial", b |-> FALSE, n |-> 0, s |-> ""],
     severity |-> "NO_ALARM", alarm |-> "NO_ALARM"]

\* a publication that stores None like any other value
_set_pv_and_alarm_unchecked(pv, value, alarm_level) ==
    [value |-> value, severity |-> alarm_level, alarm |-> "STATE_ALARM"]

\* pv.set(value, alarm_level, STATE_ALARM), or pv.set_alarm(alarm_level,
\* READ_ALARM) when the value is None
_set_pv_and_alarm(pv, value, alarm_level) ==
    IF value # NoneValue
       THEN [value |-> value, severity |-> alarm_level, alarm |-> "STATE_ALARM"]
       ELSE [pv EXCEPT !.severity = alarm_level, !.alarm = "READ_ALARM"]

\* the maps the loop is run on: the slices of up to MaxPVs successive
\* entries of a map (the records of the other entries are not looked at)
Slices(map) ==
    {SubSeq(map, i, j) :
        i \in 1..Len(map), j \in 1..Len(map)} \cap
    UNION {[1..n -> {map[k] : k \in 1..Len(map)}] : n \in 1..MaxPVs}
MonitorInputs ==
    {[parameter_map |-> m] : m \in Slices(_parameter_map) \cup Slices(_busy_parameters)}

NoPublication == [pv |-> "", failed |-> FALSE, response |-> NoResponse, result |-> Result(NoneValue, "NO_ALARM")]

InitMonitor ==
    /\ InitReplyVars /\ InitDriver /\ InitCount(FALSE)
    /\ input \in MonitorInputs
    /\ output = [pc |-> "sleep", i |-> 1,
                 pvs |-> [k \in 1..Len(input.parameter_map) |-> InitialRecord],
                 last |-> NoPublication, status |-> ""]

\* cothread.Sleep(poll_period), then the start of the for loop
MonitorSleep ==
    /\ input \in MonitorInputs
    /\ output.pc = "sleep"
    /\ output' = [output EXCEPT !.pc = "for", !.i = 1]
    /\ UNCHANGED <<replyVars, driverVars, input>>

\* one round of the for loop: the getter, the publication, Sleep(0.001)
MonitorUpdate ==
    /\ input \in MonitorInputs
    /\ output.pc = "for"
    /\ \E response \in Responses(input.parameter_map[output.i]) :
         LET pv == input.parameter_map[output.i]
             r == Getter(pv, response)
         IN  output' =
               [output EXCEPT
                  !.pvs[output.i] = _set_pv_and_alarm(@, r.value, r.alarm_level),
                  !.last = [pv |-> pv, failed |-> response.isNone,
                            response |-> response, result |-> r],
                  !.i = IF output.i = Len(input.parameter_map) THEN 1 ELSE @ + 1,
                  !.pc = IF output.i = Len(input.parameter_map) THEN "sleep" ELSE "for"]
    /\ UNCHANGED <<replyVars, driverVars, input>>

\* the getter raises (its request raised): set_status(..., level="warning")
MonitorException ==
    /\ input \in MonitorInputs
    /\ output.pc = "for"
    /\ output' = [output EXCEPT !.pc = "retry", !.status = "warning",
                                 !.last = NoPublication]
    /\ UNCHANGED <<replyVars, driverVars, input>>

\* cothread.Sleep(self.RETRY_PERIOD), then the while loop again
MonitorRetry ==
    /\ input \in MonitorInputs
    /\ output.pc = "retry"
    /\ output' = [output EXCEPT !.pc = "sleep", !.i = 1]
    /\ UNCHANGED <<replyVars, driverVars, input>>

NextMonitor == MonitorSleep \/ MonitorUpdate \/ MonitorException \/ MonitorRetry

SpecMonitor == InitMonitor /\ [][NextMonitor]_vars

(***************************************************************************)
(* comms.py: one transaction step by step, with what goes to the socket.   *)
(***************************************************************************)
UnicodeEncodeError == "UnicodeEncodeError"

\* str.encode(CODEC): the characters as bytes, or the error when one of them
\* is not ascii
encode(s) ==
    IF \A i \in 1..Len(s) : s[i] < 128
       THEN [raised |-> NoExc, bytes |-> s]
       ELSE [raised |-> UnicodeEncodeError, bytes |-> <<>>]

\* a _send that leaves the request as the caller gave it
_send_unterminated(request) ==
    [raised |-> encode(request).raised,
     sent |-> IF encode(request).raised = NoExc THEN <<encode(request).bytes>> ELSE <<>>]

\* _send(request): request += CR, then the one socket.send of the encoded
\* request; sent lists the byte strings handed to socket.send
_send(request) ==
    LET e == encode(request \o <<CR>>)
    IN  [raised |-> e.raised,
         sent |-> IF e.raised = NoExc THEN <<e.bytes>> ELSE <<>>]

\* the characters of the requests of the callers: 'a', 'F', '1' and CR
RequestChars == {97, 70, 49, CR}
WireInputs ==
    {[request |-> s] : s \in UNION {[1..n -> RequestChars] : n \in 1..MaxLen}}

InitWire ==
    /\ InitReplyVars /\ InitDriver /\ InitCount(FALSE)
    /\ input \in WireInputs
    /\ output = [pc |-> "call", locked |-> FALSE, sent |-> <<>>, recvs |-> 0,
                 result |-> NoOutcome]

\* with self._lock: self._send(request)
WireSend ==
    /\ input \in WireInputs
    /\ output.pc = "call"
    /\ LET s == _send(input.request)
       IN  output' = IF s.raised # NoExc
                        THEN [output EXCEPT !.pc = "done",
                                            !.result = Raise(s.raised, <<>>)]
                        ELSE [output EXCEPT !.pc = "recv", !.locked = TRUE,
                                            !.sent = @ \o s.sent]
    /\ UNCHANGED <<replyVars, driverVars, input>>

\* response = self._socket.recv(RECV_BUFFER), the end of the with block, and
\* the rest of send_receive
WireReceive ==
    /\ input \in WireInputs
    /\ output.pc = "recv"
    /\ \E recv \in DeviceReplies :
          output' = [output EXCEPT !.pc = "done", !.locked = FALSE,
                                   !.recvs = @ + 1,
                                   !.result = send_receive(recv)]
    /\ UNCHANGED <<replyVars, driverVars, input>>

NextWire == WireSend \/ WireReceive

SpecWire == InitWire /\ [][NextWire]_vars

(***************************************************************************)
(* What the protocol text says about a reply, stated on the bytes.         *)
(***************************************************************************)
\* the position of the last ch in s before position n, 0 if there is none
LastIndexBefore(s, ch, n) ==
    LET at == {i \in 1..(n - 1) : i <= Len(s) /\ s[i] = ch}
    IN  IF at = {} THEN 0 ELSE CHOOSE i \in at : \A j \in at : j <= i

HasFinalSegment(s) == LastIndexBefore(s, CR, Len(s) + 1) > 0

\* the last CR-terminated segment of s, without its CR
FinalSegment(s) ==
    LET last == LastIndexBefore(s, CR, Len(s) + 1)
        prev == LastIndexBefore(s, CR, last)
    IN  SubSeq(s, prev + 1, last - 1)

\* the number of CR-terminated segments of s
SegmentCount(s) == Cardinality({i \in 1..Len(s) : s[i] = CR})

Decoded(r) == ~r.timeout /\ Decodable(r.bytes) /\ r.bytes # <<>>

FinalSegmentAcked(s) ==
    /\ HasFinalSegment(s)
    /\ FinalSegment(s) # <<>>
    /\ FinalSegment(s)[1] = ACK

Returned(o) == o.raised = NoExc
Succeeded(o) == o.raised = NoExc /\ o.success

(***************************************************************************)
(* C6. When the receive inside a transaction times out, send_receive       *)
(* returns the failure result (False, None) instead of raising.            *)
(* The code lets socket.timeout escape: this statement is violated.        *)
(***************************************************************************)
C6_TimeoutReturnsFailure ==
    (phase = "done" /\ recvd.timeout) =>
        /\ outcome.raised = NoExc
        /\ outcome.success = FALSE
        /\ outcome.data = None

(***************************************************************************)
(* C7. For every reply byte sequence the device can deliver, send_receive  *)
(* returns a (success, payload) pair and never raises.                     *)
(* The code raises IndexError on an empty reply, on a reply without CR and *)
(* on an empty final segment: this statement is violated.                  *)
(***************************************************************************)
C7_NeverRaises ==
    (phase = "done" /\ ~recvd.timeout) => outcome.raised = NoExc

(***************************************************************************)
(* C8 as claimed: for every decodable reply, send_receive reports success  *)
(* iff the first character of the reply is ACK. Stated for the calls that  *)
(* return, so that the exceptions of C7 play no part in its violation.     *)
(***************************************************************************)
C8_SuccessIffFirstCharAck ==
    (phase = "done" /\ Decoded(recvd) /\ Returned(outcome)) =>
        (outcome.success <=> recvd.bytes[1] = ACK)

(***************************************************************************)
(* C8 amended: send_receive reports success iff the reply is decodable,    *)
(* its first character is not NACK, and the first character of its final   *)
(* CR-terminated segment is ACK.                                           *)
(***************************************************************************)
C8_SuccessIffFinalSegmentAcked ==
    phase = "done" =>
        (Succeeded(outcome) <=>
            /\ Decoded(recvd)
            /\ recvd.bytes[1] # NACK
            /\ FinalSegmentAcked(recvd.bytes))

\* a multi-segment reply whose first character is not ACK was a success
C8_Witness ==
    /\ phase = "done"
    /\ Succeeded(outcome)
    /\ SegmentCount(recvd.bytes) > 1
    /\ recvd.bytes[1] # ACK

(***************************************************************************)
(* C9 as claimed: two replies with the same final segment yield the same   *)
(* success flag whatever their earlier segments contain. Stated for        *)
(* decodable replies and calls that return.                                *)
(***************************************************************************)
SameFinalSegment(a, b) ==
    /\ HasFinalSegment(a)
    /\ HasFinalSegment(b)
    /\ FinalSegment(a) = FinalSegment(b)

C9_FlagDependsOnFinalSegmentOnly ==
    (/\ phase = "done"
     /\ Decoded(recvd) /\ Decoded(recvd2)
     /\ Returned(outcome) /\ Returned(outcome2)
     /\ SameFinalSegment(recvd.bytes, recvd2.bytes))
        => outcome.success = outcome2.success

(***************************************************************************)
(* C9 amended: two decodable replies that do not start with NACK and have  *)
(* the same final segment yield the same success flag (and both return or  *)
(* both raise), whatever their earlier segments contain; a reply that      *)
(* starts with NACK is a failure whatever its final segment is.            *)
(***************************************************************************)
C9_FlagDependsOnFinalSegmentUnlessNack ==
    phase = "done" =>
        /\ (/\ Decoded(recvd) /\ Decoded(recvd2)
            /\ recvd.bytes[1] # NACK /\ recvd2.bytes[1] # NACK
            /\ SameFinalSegment(recvd.bytes, recvd2.bytes))
               => /\ outcome.raised = outcome2.raised
                  /\ outcome.success = outcome2.success
        /\ (Decoded(recvd) /\ recvd.bytes[1] = NACK) => ~Succeeded(outcome)

\* two replies with the same final segment and different earlier segments,
\* both accepted
C9_Witness ==
    /\ phase = "done"
    /\ SameFinalSegment(recvd.bytes, recvd2.bytes)
    /\ SegmentCount(recvd.bytes) > 1
    /\ SegmentCount(recvd2.bytes) = 1
    /\ recvd.bytes[1] # NACK
    /\ Succeeded(outcome)
    /\ Succeeded(outcome2)

(***************************************************************************)
(* C10 as claimed: every decodable reply whose first character is not NACK *)
(* is reported as a success. Stated for the calls that return.             *)
(***************************************************************************)
C10_NotNackIsSuccess ==
    (/\ phase = "done"
     /\ Decoded(recvd)
     /\ recvd.bytes[1] # NACK
     /\ Returned(outcome))
        => outcome.success

(***************************************************************************)
(* C10 amended: every decodable reply whose first character is not NACK    *)
(* and whose final CR-terminated segment starts with ACK is reported as a  *)
(* success, with the payload of that segment.                              *)
(***************************************************************************)
C10_NotNackAndAckedIsSuccess ==
    (/\ phase = "done"
     /\ Decoded(recvd)
     /\ recvd.bytes[1] # NACK
     /\ FinalSegmentAcked(recvd.bytes))
        => /\ Succeeded(outcome)
           /\ outcome.data.isNone <=> (\A i \in 1..Len(FinalSegment(recvd.bytes)) :
                                           FinalSegment(recvd.bytes)[i] = ACK)

\* a reply whose first character is neither ACK nor NACK was a success
C10_Witness ==
    /\ phase = "done"
    /\ Decoded(recvd)
    /\ recvd.bytes[1] \notin {ACK, NACK}
    /\ Succeeded(outcome)
    /\ ~outcome.data.isNone

(***************************************************************************)
(* C1. At most one request/response exchange is in flight at any instant,  *)
(* for any threads calling send_receive or send_auto_address_message: a    *)
(* request that is sent and not yet answered belongs to the thread that    *)
(* holds the lock, and there is no second one.                             *)
(***************************************************************************)
C1_OneExchangeInFlight ==
    /\ Cardinality(inflight) <= 1
    /\ \A x \in inflight : lock = x.by

WantsToSend(h) == tpc[h] \in {"cmd", "poll", "halt"}

\* a foreground exchange is in flight while the cycle thread has a request
\* to send and the other foreground thread waits for its reply too
C1_Witness ==
    /\ \E c \in Callers : cpc[c] = "aa_recv" /\ lock = CallerTid(c)
                          /\ inflight = {[by |-> CallerTid(c), request |-> <<"1a">>]}
    /\ \E h \in Handles : WantsToSend(h)

(***************************************************************************)
(* C2. If cycle_commands is called while a cycle is Running (its thread is *)
(* alive), the call returns at once with the error logged: it starts no    *)
(* thread, changes neither the handle list nor the stop flag, and the      *)
(* running cycle stays where it is in its command sequence.                *)
(***************************************************************************)
Running == \E h \in Handles : Alive(h)

CallsCycleCommands(c) == cpc[c] = "idle" /\ call'[c].op = "cycle_commands"

C2_SecondStartRejected ==
    [][\A c \in Callers :
          (CallsCycleCommands(c) /\ Running) =>
              /\ cpc'[c] = "ret"
              /\ call'[c].result = "already running"
              /\ call'[c].raised = NoExc
              /\ UNCHANGED <<threads, stop_requested, logLevel, tpc, idx, created,
                             lock, inflight>>]_vars

\* a call was rejected while the cycle thread is in its loop
C2_Witness ==
    \E c \in Callers :
        /\ cpc[c] = "ret"
        /\ call[c].op = "cycle_commands"
        /\ call[c].result = "already running"
        /\ \E h \in Handles : tpc[h] \in {"cmd_recv", "poll", "poll_recv", "check"}

(***************************************************************************)
(* C3. When stop_cycle() returns after being called during a Running       *)
(* cycle, teardown is complete: the background thread has finished, the    *)
(* handle list is empty and the stop flag is False. Stated for a stop      *)
(* after which no newer cycle has been created.                            *)
(* The code leaves the handle and the flag behind when the thread dies of  *)
(* an exception (C6, C7): this statement is violated.                      *)
(***************************************************************************)
StopCycleReturned(c) ==
    /\ cpc[c] = "ret"
    /\ call[c].op = "stop_cycle"
    /\ call[c].running
    /\ call[c].raised = NoExc

C3_StopCycleReturnsAfterTeardown ==
    \A c \in Callers :
        (StopCycleReturned(c) /\ call[c].joined = created) =>
            /\ Finished(call[c].joined)
            /\ threads = <<>>
            /\ stop_requested = FALSE

(***************************************************************************)
(* C4. The handle list is non-empty only while the background thread is    *)
(* alive or is being started: no stale handle is left, however the loop    *)
(* ends.                                                                   *)
(* The code clears the list only in _reset_cycle; a thread that dies of an *)
(* exception (C6, C7) leaves its handle: this statement is violated.       *)
(***************************************************************************)
C4_NoStaleHandle ==
    threads # <<>> =>
        \E i \in 1..Len(threads) : Alive(threads[i]) \/ tpc[threads[i]] = "new"

(***************************************************************************)
(* C5. Once the stop flag is set, the loop observes it at its next poll    *)
(* checkpoint and sends no further command of the list: a poll that        *)
(* completes while the flag is set is never followed by the next command.  *)
(* The code looks at the flag only after a poll that did not report idle:  *)
(* this statement is violated.                                             *)
(***************************************************************************)
C5_NoCommandAfterStopAtPoll ==
    [][\A h \in Handles :
          (tpc[h] = "poll_recv" /\ stop_requested) => tpc'[h] # "cmd"]_vars

(***************************************************************************)
(* C11. For an accepted reply with more than one CR-terminated segment,    *)
(* send_receive returns the payload of the final segment only (the         *)
(* segment without the ACK characters at its ends, None when nothing is    *)
(* left) and emits exactly one 'multiple messages' warning; a reply with a *)
(* single segment emits no such warning.                                   *)
(***************************************************************************)
\* the segment without the ACK characters at its two ends
Payload(seg) ==
    LET inner == {i \in 1..Len(seg) : seg[i] # ACK}
    IN  IF inner = {} THEN None
        ELSE LET first == CHOOSE i \in inner : \A j \in inner : i <= j
                 last == CHOOSE i \in inner : \A j \in inner : j <= i
             IN  Some(SubSeq(seg, first, last))

Warnings(o) ==
    Cardinality({i \in 1..Len(o.log) : o.log[i] = "warning: multiple messages"})

C11_FinalPayloadAndOneWarning ==
    (phase = "done" /\ Succeeded(outcome)) =>
        /\ outcome.data = Payload(FinalSegment(recvd.bytes))
        /\ SegmentCount(recvd.bytes) > 1 => Warnings(outcome) = 1
        /\ SegmentCount(recvd.bytes) = 1 => Warnings(outcome) = 0

\* an accepted reply of two segments, the payload of the second one returned
C11_Witness ==
    /\ phase = "done"
    /\ Succeeded(outcome)
    /\ SegmentCount(recvd.bytes) = 2
    /\ outcome.data = Some(<<89>>)
    /\ Warnings(outcome) = 1

(***************************************************************************)
(* C12 as claimed: given the reply bytes ACK, '@', CR, send_receive        *)
(* reports success with an empty payload.                                  *)
(***************************************************************************)
AtReply == RecvBytes(<<ACK, 64, CR>>)

C12_AtReplyHasEmptyPayload ==
    (phase = "done" /\ recvd = AtReply) =>
        /\ Succeeded(outcome)
        /\ outcome.data = None

(***************************************************************************)
(* C12 amended: given the reply bytes ACK, '@', CR, send_receive reports   *)
(* success with the payload '@'.                                           *)
(***************************************************************************)
C12_AtReplyHasPayloadAt ==
    (phase = "done" /\ recvd = AtReply) =>
        /\ Succeeded(outcome)
        /\ outcome.data = Some(<<64>>)
        /\ Warnings(outcome) = 0

C12_Witness == phase = "done" /\ recvd = AtReply /\ outcome.raised = NoExc

\* the cycle thread h puts a request with this body on the wire in this step
Sends(h, body) ==
    [by |-> ThreadTid(h), request |-> Request(FIRST_ADDRESS, body)]
        \in inflight' \ inflight

\* C13: the background loop sends the commands in list order, wrapping from
\* the last to the first, and sends a command other than its very first only
\* after the last idle-poll for the previous command returned the payload 'Y'.
C13_CommandsInOrderAfterIdle ==
    [][\A h \in Handles : \A i \in 1..NumCommands :
          Sends(h, commands[i]) =>
              /\ i = (hist[h].sent % NumCommands) + 1
              /\ hist[h].sent # 0 => hist[h].polled = "idle"]_vars

\* the loop has sent the last command of the list after the idle-poll for
\* the one before it returned 'Y'
C13_Witness ==
    \E h \in Handles :
        /\ tpc[h] = "cmd_recv"
        /\ hist[h].sent = NumCommands
        /\ [by |-> ThreadTid(h),
            request |-> Request(FIRST_ADDRESS, commands[NumCommands])] \in inflight

\* the for loop of thread h has just left the poll loop of a command
Advanced(h) == tpc[h] \in {"cmd", "while"} /\ hist[h].polled = "idle"

\* C14: if the device first reports idle on the k-th idle-poll after a
\* command, the loop has made exactly k idle-polls for that command when it
\* advances (k - 1 of them answered "not idle"), and it has slept exactly once
\* between consecutive polls.
C14_ExactlyKPollsOneDelayBetween ==
    \A h \in Handles :
        /\ Advanced(h) =>
              /\ count[h].polls = count[h].busy + 1
              /\ count[h].sleeps = count[h].polls - 1
        /\ tpc[h] = "poll_recv" =>
              /\ count[h].busy = count[h].polls - 1
              /\ count[h].sleeps = count[h].polls - 1

\* the device reported idle on the last poll the bound allows
C14_Witness ==
    \E h \in Handles :
        /\ Advanced(h)
        /\ count[h].polls = MaxPolls
        /\ count[h].sleeps = MaxPolls - 1

\* C15: a failed idle-poll (NACK or undecodable reply, result (False, None))
\* is treated as "not yet idle": the loop stays on the current command and in
\* the poll loop with its handle registered, and its next step after the
\* failure is the next poll unless a stop was requested meanwhile.
C15_FailedPollKeepsPolling ==
    [][\A h \in Handles :
          /\ (tpc[h] = "poll_recv" /\ tpc'[h] # "poll_recv"
                  /\ hist'[h].polled = "failed") =>
                 /\ tpc'[h] = "check"
                 /\ idx'[h] = idx[h]
                 /\ hist'[h].sent = hist[h].sent
                 /\ threads' = threads
          /\ (tpc[h] = "check" /\ tpc'[h] # "check"
                  /\ hist[h].polled = "failed" /\ ~stop_requested) =>
                 /\ tpc'[h] = "poll"
                 /\ idx'[h] = idx[h]
                 /\ threads' = threads]_vars

\* a poll has failed and the loop, still on the second command with its
\* handle registered and no stop requested, is about to poll again
C15_Witness ==
    \E h \in Handles :
        /\ tpc[h] = "check"
        /\ hist[h].polled = "failed"
        /\ hist[h].sent = NumCommands
        /\ ~stop_requested
        /\ threads # <<>>

\* C16: stop_cycle() called while Idle (no thread handle) returns without
\* raising, performs no transaction and leaves the stop flag, the handle list
\* and the Link log level unchanged, so any number of such calls leaves the
\* driver as it was.
C16_StopCycleWhileIdleIsNoOp ==
    [][\A c \in Callers :
          /\ (cpc[c] = "idle" /\ call'[c].op = "stop_cycle" /\ threads = <<>>) =>
                 /\ cpc'[c] = "ret"
                 /\ call'[c].raised = NoExc
                 /\ call'[c].result = "no cycle"
                 /\ UNCHANGED <<commsVars, microlabVars, threadVars>>
          /\ (cpc[c] = "ret" /\ call[c].op = "stop_cycle"
                  /\ call[c].result = "no cycle" /\ cpc'[c] # "ret") =>
                 /\ cpc'[c] = "idle"
                 /\ UNCHANGED <<commsVars, microlabVars, threadVars>>]_vars

\* every caller has called stop_cycle while Idle and is about to return
C16_Witness ==
    /\ threads = <<>>
    /\ stop_requested = FALSE
    /\ \A c \in Callers :
          /\ cpc[c] = "ret"
          /\ call[c].op = "stop_cycle"
          /\ call[c].result = "no cycle"
          /\ call[c].raised = NoExc

\* the halt request (address + 'K') of cycle thread h
HaltRequest(h) ==
    [by |-> ThreadTid(h), request |-> Request(FIRST_ADDRESS, "K")]

\* C17: every transition of the cycle back to Idle (the handle list becoming
\* empty) is made by a background loop that has issued the halt_execution
\* request (address + 'K') to the cycle's address before, and the loop clears
\* the stop flag and the handle list only after that request.
C17_HaltBeforeIdle ==
    [][/\ (threads # <<>> /\ threads' = <<>>) =>
              \E h \in Handles :
                  /\ hist[h].halted
                  /\ tpc[h] = "reset_clear"
                  /\ tpc'[h] = "done"
       /\ (stop_requested /\ ~stop_requested') =>
              \E h \in Handles : hist[h].halted /\ tpc[h] = "reset_flag"
       /\ \A h \in Handles :
              /\ tpc[h] \in {"reset_flag", "reset_clear"} => hist[h].halted
              /\ (~hist[h].halted /\ hist'[h].halted) =>
                     HaltRequest(h) \in inflight' \ inflight]_vars

\* a cycle has ended: its thread is done and the driver is Idle again
C17_Witness ==
    /\ threads = <<>>
    /\ ~stop_requested
    /\ \E h \in Handles : tpc[h] = "done"

\* the text of a reply up to its first CR (all of it if it has none)
FirstSegment(s) ==
    IF FirstIndex(s, CR, 1) = 0 THEN s
    ELSE SubSeq(s, 1, FirstIndex(s, CR, 1) - 1)

\* the reply is decodable, does not start with NACK, and its first
\* CR-delimited segment is "1a" or "1b"
AddressAccepted(r) ==
    /\ r # RecvTimeout
    /\ Decodable(r.bytes)
    /\ r.bytes # <<>>
    /\ r.bytes[1] # NACK
    /\ FirstSegment(r.bytes) \in {<<49, 97>>, <<49, 98>>}

\* C18: auto_address() returns True if and only if the reply is decodable,
\* does not start with NACK and its first CR-delimited segment is exactly
\* "1a" or "1b"; in every other case it returns False.
C18_AutoAddressTrueIffKnownAddress ==
    phase = "done" =>
        /\ outcome.raised = NoExc
        /\ outcome.ret = AddressAccepted(recvd)

\* the transaction on reply r returned the failure (False, None)
TransactionFailed(r) ==
    Returned(send_receive(r)) /\ ~Succeeded(send_receive(r))

\* C19: a failed transaction is reported to the caller of send_command: the
\* call raises or returns something other than the None it returns after a
\* successful transaction.
C19_FailureReportedToCaller ==
    (phase = "done" /\ TransactionFailed(recvd)) =>
        (outcome.raised # NoExc \/ outcome.ret # None)

\* a total_system_reset has succeeded: its caller has run sys.exit()
ResetSucceeded == \E c \in Callers : cpc[c] = "exited"

\* C20: a successful total_system_reset terminates the controlling process:
\* after the reset succeeded no cycle thread of the process puts a further
\* request on the wire, also when the reset was called while a cycle was
\* Running.
C20_NoTransactionAfterReset ==
    [][ResetSucceeded =>
           \A h \in Handles :
               \A r \in inflight' \ inflight : r.by # ThreadTid(h)]_vars

\* the request of initialise, sent by caller c and not yet answered
InitialiseRequest(c) == [by |-> CallerTid(c), request |-> Request("a", "XR")]

\* C21: initialise() performs one transaction (address 'a' + 'XR') and sets
\* the initialised flag to True only when that transaction succeeds; when the
\* transaction fails the flag is left as it was and an error is logged.
C21_InitialisedOnlyOnSuccess ==
    [][/\ \A c \in Callers :
             /\ (cpc[c] = "idle" /\ call'[c].op = "initialise") =>
                    /\ inflight' \ inflight = {InitialiseRequest(c)}
                    /\ initialised' = initialised
             /\ (cpc[c] = "init_recv" /\ cpc'[c] # "init_recv") =>
                    /\ cpc'[c] = "ret"
                    /\ inflight' = inflight \ {InitialiseRequest(c)}
                    /\ call'[c].result = "debug: Initialise successful" =>
                           initialised'
                    /\ call'[c].result # "debug: Initialise successful" =>
                           initialised' = initialised
                    /\ call'[c].raised = NoExc =>
                           call'[c].result \in {"debug: Initialise successful",
                                                "error: Initialise failed"}
       /\ initialised' # initialised =>
             \E c \in Callers :
                 /\ cpc[c] = "init_recv"
                 /\ InitialiseRequest(c) \in inflight
                 /\ call'[c].result = "debug: Initialise successful"]_vars

\* initialise has succeeded once and then failed: the flag is still True
C21_Witness ==
    \E c \in Callers :
        /\ cpc[c] = "ret"
        /\ call[c].op = "initialise"
        /\ call[c].result = "error: Initialise failed"
        /\ initialised

\* C22: after a cycle has been stopped with stop_cycle(enable_logging=True)
\* the Link logger is at DEBUG, under every interleaving of the stopping
\* caller with the background thread; with enable_logging=False it is at
\* ERROR.
C22_LogLevelAfterStop ==
    \A c \in Callers :
        (StopCycleReturned(c) /\ call[c].result = "joined"
             /\ tpc[call[c].joined] = "done") =>
            logLevel = IF call[c].enable_logging THEN "DEBUG" ELSE "ERROR"


(***************************************************************************)
(* The syringe sub-commands.                                               *)
(***************************************************************************)
InRange(arg, lo, hi) == arg.type # "int" \/ (arg.n >= lo /\ arg.n <= hi)

ValidSyringeInput ==
    /\ input.value >= MIN_SYRINGE_MOVE /\ input.value <= MAX_SYRINGE_MOVE
    /\ InRange(input.speed, MIN_SPEED, MAX_SPEED)
    /\ InRange(input.return_steps, MIN_RETURN_STEPS, MAX_RETURN_STEPS)

IsDigits(s) == \A i \in 1..Len(s) : s[i] \in 48..57

\* the number a run of decimal digits stands for
RECURSIVE DecimalValue(_)
DecimalValue(s) ==
    IF s = <<>> THEN 0
    ELSE 10 * DecimalValue(SubSeq(s, 1, Len(s) - 1)) + (s[Len(s)] - 48)

\* s is the decimal numeral of n
Numeral(s, n) == s # <<>> /\ IsDigits(s) /\ DecimalValue(s) = n

\* C23: a syringe sub-command built with a step value, a speed or a
\* return-steps value outside its range raises ValueError at construction,
\* and nothing is sent for it.
C23_InvalidSubCommandRaises ==
    (output.pc = "done" /\ ~ValidSyringeInput)
        => (output.raised = ValueError /\ output.sent = <<>>)

C23_Witness ==
    /\ output.pc = "done" /\ output.raised = ValueError
    /\ input.value = 3 /\ input.speed = IntArg(MAX_SPEED + 1)
    /\ input.return_steps = NoArg

\* C24: the string of a sub-command is positional: a pickup built with a
\* speed and return steps is side, 'P', steps, 'S', speed, 'N', return steps;
\* a dispense or an absolute move built from side and steps alone is side,
\* 'D' or 'M', steps; the numbers are decimal numerals of the field values.
C24_RenderingPositional ==
    (output.pc = "done" /\ output.raised = NoExc) =>
        /\ Len(output.sent) = 1
        /\ LET s == output.sent[1]
           IN  /\ Len(s) >= 3 /\ s[1] = input.side
               /\ (input.kind = "SyringePickup" /\ input.speed.type = "int"
                        /\ input.return_steps.type = "int") =>
                     /\ s[2] = 80
                     /\ \E i, j \in 3..Len(s) :
                          /\ i < j /\ s[i] = 83 /\ s[j] = 78
                          /\ Numeral(SubSeq(s, 3, i - 1), input.value)
                          /\ Numeral(SubSeq(s, i + 1, j - 1), input.speed.n)
                          /\ Numeral(SubSeq(s, j + 1, Len(s)), input.return_steps.n)
               /\ (input.kind = "SyringeDispense" /\ input.speed.type # "int"
                        /\ input.return_steps.type # "int") =>
                     (s[2] = 68 /\ Numeral(SubSeq(s, 3, Len(s)), input.value))
               /\ (input.kind = "SyringeAbsoluteMove" /\ input.speed.type # "int"
                        /\ input.return_steps.type # "int") =>
                     (s[2] = 77 /\ Numeral(SubSeq(s, 3, Len(s)), input.value))

C24_Witness ==
    /\ output.pc = "done"
    /\ input = [kind |-> "SyringePickup", side |-> SideRight, value |-> 3,
                speed |-> IntArg(20), return_steps |-> IntArg(40)]
    /\ output.sent = << <<67, 80, 51, 83, 50, 48, 78, 52, 48>> >>

NonInteger(arg) == arg.type = "float"

IgnoredNotices(what) ==
    {i \in 1..Len(output.log) :
        output.log[i].level = "debug" /\ output.log[i].what = what
        /\ output.log[i].text = "Ignoring non-integer argument"}

\* C25: a non-integer speed or return-steps argument (the other arguments
\* being in range) does not make the construction fail: the sub-command is
\* created without that field and exactly one debug notice names the
\* argument that was ignored.
C25_NonIntegerIgnored ==
    (output.pc = "done" /\ ValidSyringeInput) =>
        /\ output.raised = NoExc /\ Len(output.sent) = 1
        /\ Cardinality(IgnoredNotices("speed"))
              = IF NonInteger(input.speed) THEN 1 ELSE 0
        /\ Cardinality(IgnoredNotices("return steps"))
              = IF NonInteger(input.return_steps) THEN 1 ELSE 0
        /\ NonInteger(input.speed) =>
              \A i \in 1..Len(output.sent[1]) : output.sent[1][i] # 83
        /\ NonInteger(input.return_steps) =>
              \A i \in 1..Len(output.sent[1]) : output.sent[1][i] # 78
        /\ Len(output.log) = Cardinality(IgnoredNotices("speed"))
                               + Cardinality(IgnoredNotices("return steps"))

C25_Witness ==
    /\ output.pc = "done" /\ output.raised = NoExc
    /\ input.kind = "SyringePickup" /\ input.value = 3
    /\ input.speed = FloatArg(50) /\ input.return_steps = NoArg
    /\ Len(output.log) = 1 /\ output.log[1].what = "speed"


(***************************************************************************)
(* The status decoders.                                                    *)
(***************************************************************************)
StatusCallDone == input \in StatusInputs /\ output.pc = "done"

\* C26: a byte-status request answered with ACK and one character returns
\* the ordinal of that character, and the label of a table entry is emitted
\* exactly when the entry is not empty and its bit (entry 1 is bit 7, entry 8
\* bit 0) is set in the reply.
C26_ByteStatusDecoded ==
    \A b \in StatusBytes :
        (StatusCallDone /\ input.decoder \in ByteStatusDecoders
            /\ input.recv = AckReply(<<b>>)) =>
          /\ output.raised = NoExc
          /\ output.result = Value(<<b>>)
          /\ Len(output.log) = 1 /\ output.log[1].level = "info"
          /\ \A e \in 1..8 :
               LET label == response_map[input.decoder][e]
               IN  (\E j \in 1..Len(output.log[1].labels) :
                        output.log[1].labels[j] = label)
                   <=> (label # "" /\ (b \div (2 ^ (8 - e))) % 2 = 1)

C26_Witness ==
    /\ StatusCallDone /\ input.decoder = "InstrumentBusyStatus"
    /\ input.recv = AckReply(<<71>>)
    /\ output.result = Value(<<71>>)
    /\ output.log[1].labels
         = <<"Right valve busy", "Left syringe busy", "Left valve busy">>

ErrorRecords == {i \in 1..Len(output.log) : output.log[i].level = "error"}

\* C27: when the transaction of a status decoder fails (no answer in time, a
\* closed stream, NACK, bytes that are not ascii), request() returns None,
\* logs one error and has made the one request address + query code.
C27_DecoderFailure ==
    (StatusCallDone /\ input.recv \in FailureReplies) =>
        /\ output.raised = NoExc
        /\ output.result = NoValue
        /\ Cardinality(ErrorRecords) = 1
        /\ output.requests = <<Request(input.address, request_string[input.decoder])>>

\* a decoder whose transaction returns the failure result (NACK, bytes that
\* are not ascii) returns None after one error record and one request
DecoderReturnedFailure ==
    (StatusCallDone /\ input.recv \in {RecvBytes(<<NACK, CR>>), RecvBytes(<<200, CR>>)}) =>
        /\ output.raised = NoExc
        /\ output.result = NoValue
        /\ Cardinality(ErrorRecords) = 1 /\ Len(output.log) = 1
        /\ output.requests = <<Request(input.address, request_string[input.decoder])>>

\* C28: the instrument error request answered with ACK and four characters
\* returns the four ordinals in the order left syringe, left valve, right
\* syringe, right valve, and its record for a component holds 'not
\* initialised' exactly when the lowest bit of that component's byte is set.
C28_ErrorRequestDecoded ==
    \A q \in [1..4 -> ErrorBytes] :
        (StatusCallDone /\ input.decoder = "InstrumentErrorRequest"
            /\ input.recv = AckReply(q)) =>
          /\ output.raised = NoExc
          /\ output.result = Value(<<q[1], q[2], q[3], q[4]>>)
          /\ Len(output.log) = 4
          /\ \A i \in 1..4 :
               /\ output.log[i].what
                    = <<"Left syringes", "Left valves", "Right syringes",
                        "Right valves">>[i]
               /\ (\E j \in 1..Len(output.log[i].labels) :
                        output.log[i].labels[j] = "not initialised")
                   <=> q[i] % 2 = 1

C28_Witness ==
    /\ StatusCallDone /\ input.decoder = "InstrumentErrorRequest"
    /\ input.recv = AckReply(<<64, 65, 64, 66>>)
    /\ output.result = Value(<<64, 65, 64, 66>>)
    /\ output.log[2] = Info("Left valves", <<"not initialised">>)
    /\ output.log[4] = Info("Right valves", <<"initialisation error">>)
    /\ output.log[1] = Info("Left syringes", <<"No known errors">>)


(***************************************************************************)
(* The monitor loop of the publishing layer.                               *)
(***************************************************************************)
\* a step of the for loop that publishes the result of a failed request
\* (the request handed None to the getter)
PublishesFailure ==
    /\ input \in MonitorInputs
    /\ output.pc = "for" /\ output'.pc # "retry" /\ output' # output
    /\ output'.last.failed

\* after the publication the loop is at the next PV of the map, or at the
\* sleep before the next pass when the PV was the last one
GoesOnWithNextPV ==
    IF output.i < Len(input.parameter_map)
       THEN output'.pc = "for" /\ output'.i = output.i + 1
       ELSE output'.pc = "sleep"

IndividualSyringeErrorPVs == {"right_syringe_error", "left_syringe_error"}

\* C29: every getter maps a failed request (None) to (None, INVALID alarm);
\* publishing it leaves the value of the PV as it was and sets only the
\* alarm, and the loop goes on with the next PV.
C29_FailedRequestKeepsValue ==
    [][PublishesFailure =>
          /\ output'.last.result = Result(NoneValue, "INVALID_ALARM")
          /\ output'.pvs[output.i].value = output.pvs[output.i].value
          /\ output'.pvs[output.i].severity = "INVALID_ALARM"
          /\ GoesOnWithNextPV]_vars

\* C29 as amended: the same for every getter but those of the right and the
\* left syringe error PV, which map a failed request to ("Request Error",
\* INVALID alarm), so that the PV takes the value "Request Error" with the
\* INVALID alarm; the loop goes on with the next PV in both cases.
C29_FailedRequestPublished ==
    [][PublishesFailure =>
          /\ output'.last.pv = input.parameter_map[output.i]
          /\ output'.pvs[output.i].severity = "INVALID_ALARM"
          /\ GoesOnWithNextPV
          /\ \A k \in 1..Len(input.parameter_map) :
                k # output.i => output'.pvs[k] = output.pvs[k]
          /\ IF output'.last.pv \in IndividualSyringeErrorPVs
                THEN /\ output'.last.result
                          = Result(StrValue("Request Error"), "INVALID_ALARM")
                     /\ output'.pvs[output.i].value = StrValue("Request Error")
                ELSE /\ output'.last.result = Result(NoneValue, "INVALID_ALARM")
                     /\ output'.pvs[output.i].value = output.pvs[output.i].value
                     /\ output'.pvs[output.i].alarm = "READ_ALARM"]_vars

C29_Witness ==
    /\ input = [parameter_map |-> <<"instrument_error_status", "right_syringe_error">>]
    /\ output.pc = "sleep"
    /\ output.last.pv = "right_syringe_error" /\ output.last.failed
    /\ output.pvs[1] = [value |-> IntValue(2), severity |-> "INVALID_ALARM",
                        alarm |-> "READ_ALARM"]
    /\ output.pvs[2] = [value |-> StrValue("Request Error"),
                        severity |-> "INVALID_ALARM", alarm |-> "STATE_ALARM"]


(***************************************************************************)
(* The framing of a request.                                               *)
(***************************************************************************)
\* C30: what a transaction hands to the socket is the caller's string
\* followed by exactly one CR, and a transaction makes exactly one send and
\* exactly one receive.
C30_OneFramedSendOneReceive ==
    /\ (input \in WireInputs /\ output.pc = "recv") =>
          (Len(output.sent) = 1 /\ output.recvs = 0)
    /\ (input \in WireInputs /\ output.pc = "done") =>
          /\ Len(output.sent) = 1 /\ output.recvs = 1
          /\ Len(output.sent[1]) = Len(input.request) + 1
          /\ SubSeq(output.sent[1], 1, Len(input.request)) = input.request
          /\ output.sent[1][Len(input.request) + 1] = 13

C30_Witness ==
    /\ input = [request |-> <<97, 70>>]
    /\ output.pc = "done"
    /\ output.sent = << <<97, 70, 13>> >>
    /\ output.recvs = 1
    /\ output.result.raised = NoExc /\ output.result.success


(***************************************************************************)
(* Concurrent callers of cycle_commands and stop_cycle.                    *)
(***************************************************************************)
\* the Thread objects that are created and have not ended
LiveThreadObjects == {h \in Handles : tpc[h] = "new" \/ Alive(h)}

\* C31: however concurrent cycle_commands calls made from Idle interleave,
\* at most one cycle thread exists and the handle list holds at most one
\* handle.
C31_AtMostOneCycleThread ==
    Len(threads) <= 1 /\ Cardinality(LiveThreadObjects) <= 1

\* C35: whenever no cycle is running (the handle list is empty and no cycle
\* thread is alive) the stop flag is False.
C35_IdleMeansFlagClear ==
    (threads = <<>> /\ \A h \in Handles : ~Alive(h)) => ~stop_requested

(* The lock and the exchanges of the cycle thread. *)
\* the program points of _cycle_commands inside `with self._lock`
ExchangePcs == {"cmd_recv", "poll_recv", "halt_recv"}

\* C32: the cycle thread holds the lock only inside one send+receive: at
\* every point between two transactions of the loop (before a command, between
\* a reply and the next poll, before the halt) the lock is not held by the
\* loop, so a foreground transaction waits for one exchange at most.
C32_LoopHoldsLockForOneExchange ==
    \A h \in Handles : lock = ThreadTid(h) => tpc[h] \in ExchangePcs

\* a foreground transaction holds the lock between two polls of one command
C32_Witness ==
    \E c \in Callers, h \in Handles :
        /\ lock = CallerTid(c) /\ cpc[c] = "sr_recv"
        /\ tpc[h] = "check" /\ hist[h].polled = "busy"

(***************************************************************************)
(* Comms._send_receive step by step: the lock is taken, the request is     *)
(* sent (socket.send raises OSError on a closed socket), the reply is      *)
(* received (socket.recv raises socket.timeout), and the with block ends.  *)
(***************************************************************************)
OSError == "OSError"

\* the program points inside `with self._lock`
InsideLock == {"gate_send", "gate_recv"}

\* a lock that is released only when the block ends without an exception
ReleaseUnlessRaised(t, exc) == lock' = IF exc = NoExc THEN Free ELSE lock

\* the end of `with self._lock`: the lock is released however the block is
\* left, by its last statement or by an exception
Release(t, exc) == lock' = Free

\* send_receive or send_auto_address_message is called: with self._lock
GateAcquire(c) ==
    /\ cpc[c] = "idle"
    /\ Acquire(CallerTid(c))
    /\ cpc' = [cpc EXCEPT ![c] = "gate_send"]
    /\ \E op \in {"send_receive", "send_auto_address_message"} :
          call' = [call EXCEPT ![c] = Call(op)]
    /\ UNCHANGED <<replyVars, flagVars, sideVars, countVars, microlabVars, threadVars, inflight>>

\* self._send(request): the request is on the wire, or socket.send raises and
\* the exception leaves the with block and the call
GateSend(c) ==
    /\ cpc[c] = "gate_send"
    /\ \/ /\ \E request \in IF call[c].op = "send_receive"
                                THEN {Request(FIRST_ADDRESS, body) : body \in CallerBodies}
                                ELSE {<<"1a">>} :
                  Send(CallerTid(c), request)
          /\ cpc' = [cpc EXCEPT ![c] = "gate_recv"]
          /\ UNCHANGED <<lock, call>>
       \/ /\ Release(CallerTid(c), OSError)
          /\ cpc' = [cpc EXCEPT ![c] = "ret"]
          /\ call' = [call EXCEPT ![c].raised = OSError]
          /\ UNCHANGED inflight
    /\ UNCHANGED <<replyVars, flagVars, sideVars, countVars, microlabVars, threadVars>>

\* self._socket.recv(RECV_BUFFER), the end of the with block and the rest of
\* the call
GateReceive(c) ==
    /\ cpc[c] = "gate_recv"
    /\ \E recv \in DeviceReplies :
          LET sr == call[c].op = "send_receive"
              o == IF sr THEN send_receive(recv) ELSE send_auto_address_message(recv)
          IN  /\ call' = [call EXCEPT ![c].raised = o.raised,
                                       ![c].result = IF o.raised # NoExc THEN "none"
                                                     ELSE IF sr THEN (IF o.success THEN "True"
                                                                      ELSE "False")
                                                     ELSE IF o.ret.isNone THEN "None"
                                                     ELSE "address"]
              /\ Release(CallerTid(c), IF recv.timeout THEN SocketTimeout ELSE NoExc)
    /\ inflight' = {x \in inflight : x.by # CallerTid(c)}
    /\ cpc' = [cpc EXCEPT ![c] = "ret"]
    /\ UNCHANGED <<replyVars, flagVars, sideVars, countVars, microlabVars, threadVars>>

NextGate ==
    \E c \in Callers :
        \/ GateAcquire(c)
        \/ GateSend(c)
        \/ GateReceive(c)
        \/ ReturnToCaller(c)

SpecGate == Init /\ [][NextGate]_vars

\* C37: the lock is held only by a thread that is inside the with block: a
\* thread whose exchange is over, by a return or by an exception of the send
\* or of the receive, has released it, and the lock is free when no thread is
\* inside.
C37_LockReleasedAfterEveryExchange ==
    /\ \A c \in Callers : lock = CallerTid(c) => cpc[c] \in InsideLock
    /\ lock \in {Free} \cup {CallerTid(c) : c \in Callers}

\* a thread whose send raised has left the call, and another thread's receive
\* timed out, and the lock is free for the next transaction
C37_Witness ==
    \E c, d \in Callers :
        /\ cpc[c] = "ret" /\ call[c].raised = OSError
        /\ cpc[d] = "ret" /\ call[d].raised = SocketTimeout
        /\ lock = Free

(***************************************************************************)
(* Comms.connect and clear_socket: the drain loop. output is the state     *)
(* of the socket and of the loop: pc, the bytes the device has sent that   *)
(* are not yet read, what the device is doing, and the calls of recv made. *)
(***************************************************************************)
RECV_BUFFER == 4096

Min(a, b) == IF a < b THEN a ELSE b

InitConnect ==
    /\ InitReplyVars /\ InitDriver /\ InitCount(FALSE)
    /\ input = <<>>
    /\ output = [pc |-> "connect", pending |-> 0, peer |-> "sending", recvs |-> 0]

\* the device sends a byte of its power-on messages
PeerSends ==
    /\ output.peer = "sending"
    /\ output.pending < MaxLen
    /\ output' = [output EXCEPT !.pending = @ + 1]
    /\ UNCHANGED <<replyVars, driverVars, input>>

\* the device stops sending: it stays silent, or it closes the stream
PeerStops ==
    /\ output.peer = "sending"
    /\ \E end \in {"silent", "closed"} : output' = [output EXCEPT !.peer = end]
    /\ UNCHANGED <<replyVars, driverVars, input>>

\* self._socket.connect(self._endpoint), then clear_socket is entered
Connect ==
    /\ output.pc = "connect"
    /\ output' = [output EXCEPT !.pc = "drain"]
    /\ UNCHANGED <<replyVars, driverVars, input>>

\* one pass of `while True: try: recv(RECV_BUFFER) except socket.timeout:
\* break`: recv returns the bytes that are there, or b'' at once when the
\* peer has closed the stream, or raises socket.timeout after TIMEOUT without
\* a byte from a peer that is still there
ClearSocketRecv ==
    /\ output.pc = "drain"
    /\ output.recvs < MaxRecvs
    /\ output' = [output EXCEPT
           !.recvs = @ + 1,
           !.pending = @ - Min(@, RECV_BUFFER),
           !.pc = IF output.pending = 0 /\ output.peer # "closed"
                     THEN "connected" ELSE "drain"]
    /\ UNCHANGED <<replyVars, driverVars, input>>

NextConnect == PeerSends \/ PeerStops \/ Connect \/ ClearSocketRecv

SpecConnect == InitConnect /\ [][NextConnect]_vars

\* C33: once the device has stopped sending, by staying silent or by closing
\* the stream, and the pending bytes have been discarded, the next recv of the
\* drain loop ends the loop and connect returns.
C33_DrainEndsOncePeerStopped ==
    [][(/\ output.pc = "drain" /\ output.pending = 0
        /\ output.peer \in {"silent", "closed"}
        /\ output'.recvs # output.recvs)
       => output'.pc = "connected"]_vars

\* the drain loop ends by the timeout of recv when the peer stays silent
DrainEndsOncePeerSilent ==
    [][(/\ output.pc = "drain" /\ output.pending = 0
        /\ output.peer = "silent"
        /\ output'.recvs # output.recvs)
       => output'.pc = "connected"]_vars

(***************************************************************************)
(* The controller and the cycle thread under fair scheduling: a thread     *)
(* that can take a step is given one in the end, which holds for the cycle *)
(* thread (its exchanges end after TIMEOUT at most, its delay after 0.1 s) *)
(* and for the controller inside stop_cycle.                               *)
(***************************************************************************)
StopCycleStep(c) ==
    \/ StopCycleSetLevel(c)
    \/ StopCycleSetFlag(c)
    \/ StopCycleJoin(c)
    \/ StopCycleJoined(c)

Fairness ==
    /\ \A h \in Handles : WF_vars(ThreadStep(h))
    /\ WF_vars(StopCycleStep(Controller))

SpecCycleFair == Init /\ [][NextCycle]_vars /\ Fairness

\* stop_cycle has been called while a cycle thread was alive
StopCalledWhileRunning ==
    /\ cpc[Controller] = "sc_level"
    /\ call[Controller].running

\* a transaction of a loop has raised
LoopTransactionRaised == \E h \in Handles : tpc[h] = "crashed"

\* the call of stop_cycle is over, and no cycle thread is left alive
StopCycleOver ==
    /\ cpc[Controller] = "ret"
    /\ call[Controller].op = "stop_cycle"
    /\ \A h \in Handles : ~Alive(h)

\* the loop sees the stop flag and ends, and the call of stop_cycle ends, by
\* a return or by an exception, whatever the device answers
StopCycleEnds ==
    StopCalledWhileRunning ~> (StopCycleOver \/ LoopTransactionRaised)

\* C34: a stop_cycle called while a cycle is running returns in the end, the
\* loop having seen the stop flag and ended, whatever the device answers to
\* the idle-polls, unless a transaction of the loop raises. The call ends in
\* every fair run (StopCycleEnds); this is its final result: when it has
\* ended it has returned, not raised.
C34_StopCycleReturns ==
    (/\ cpc[Controller] = "ret"
     /\ call[Controller].op = "stop_cycle"
     /\ call[Controller].running
     /\ ~LoopTransactionRaised)
    => call[Controller].raised = NoExc

(***************************************************************************)
(* Transactions one after the other on the one stream socket. output is    *)
(* the state of the socket and of the caller: pc, the number n of the      *)
(* transaction, the requests the device has not answered yet, the bytes    *)
(* that have arrived and are not yet read, and what send_receive gave.     *)
(***************************************************************************)
\* the device's reply to the k-th request: ACK or NACK, a payload that tells
\* the replies apart (the digit k), CR
ReplyTo(k, first) == <<first, 48 + k, CR>>

InitStream ==
    /\ InitReplyVars /\ InitDriver /\ InitCount(FALSE)
    /\ input = <<>>
    /\ output = [pc |-> "idle", n |-> 0, owed |-> <<>>, stream |-> <<>>,
                 result |-> NoOutcome]

\* with self._lock: self._send(request): the n-th request goes out, whatever
\* is still unread on the socket
StreamSend ==
    /\ output.pc \in {"idle", "returned"}
    /\ output.n < MaxTransactions
    /\ output' = [output EXCEPT !.pc = "sent", !.n = @ + 1,
                                 !.owed = Append(@, output.n + 1),
                                 !.result = NoOutcome]
    /\ UNCHANGED <<replyVars, driverVars, input>>

\* the device answers the oldest request it has not answered, at any time
DeviceAnswers ==
    /\ output.owed # <<>>
    /\ \E first \in {ACK, NACK} :
          output' = [output EXCEPT !.owed = Tail(@),
                                   !.stream = @ \o ReplyTo(Head(output.owed), first)]
    /\ UNCHANGED <<replyVars, driverVars, input>>

\* response = self._socket.recv(RECV_BUFFER) and the rest of send_receive:
\* recv returns the bytes that have arrived, or raises socket.timeout when
\* none has arrived within TIMEOUT
StreamReceive ==
    /\ output.pc = "sent"
    /\ output' = [output EXCEPT
           !.pc = "returned",
           !.stream = <<>>,
           !.result = send_receive(IF output.stream = <<>> THEN RecvTimeout
                                   ELSE RecvBytes(output.stream))]
    /\ UNCHANGED <<replyVars, driverVars, input>>

NextStream == StreamSend \/ DeviceAnswers \/ StreamReceive

SpecStream == InitStream /\ [][NextStream]_vars

\* C36: the reply a transaction returns is the device's reply to the request
\* sent in that transaction, also after the receive of an earlier transaction
\* timed out and its reply arrived late.
C36_ReplyAnswersOwnRequest ==
    (output.pc = "returned" /\ output.result.raised = NoExc /\ output.result.success)
    => output.result.data = Some(<<ReplyTo(output.n, ACK)[2]>>)

(***************************************************************************)
(* wrapper.py: Wrapper.initialise, the on_update callback of the           *)
(* Initialise record, as a function of what the device delivers. output    *)
(* is the DeviceInitialised record of the publishing layer.                *)
(***************************************************************************)
\* builder.boolIn("DeviceInitialised"), set(False)
InitWrapper ==
    /\ InitReplyVars /\ InitDriver /\ InitCount(FALSE)
    /\ input = <<>>
    /\ output = [DeviceInitialised |-> FALSE]

\* self.microlab.initialise(): the flag of the driver after the transaction
\* gave o
microlab_initialise(o) ==
    IF o.raised = NoExc /\ o.success THEN TRUE ELSE initialised

\* self.microlab.initialise(); self.initialised.set(True): the second
\* statement is reached unless the first raises
WrapperInitialiseOn(recv) ==
    /\ phase' = "done"
    /\ outcome' = send_receive(recv)
    /\ initialised' = microlab_initialise(outcome')
    /\ output' = [output EXCEPT !.DeviceInitialised =
                      IF outcome'.raised = NoExc THEN TRUE ELSE @]
    /\ UNCHANGED <<recvd2, outcome2, commsVars, microlabVars, threadVars,
                   callerVars, countVars, input>>

\* the device sends nothing within TIMEOUT
WrapperInitialiseTimeout ==
    /\ phase = "recv"
    /\ recvd = RecvBytes(<<>>)
    /\ recvd' = RecvTimeout
    /\ WrapperInitialiseOn(recvd')

WrapperInitialise ==
    /\ phase = "recv"
    /\ recvd' = recvd
    /\ WrapperInitialiseOn(recvd)

NextWrapper == DeviceSendsByte \/ WrapperInitialiseTimeout \/ WrapperInitialise

SpecWrapper == InitWrapper /\ [][NextWrapper]_vars

\* C38: the DeviceInitialised PV is True only if the driver's initialised
\* flag is True, that is only if the device accepted the initialise request.
C38_PvTrueOnlyIfInitialised ==
    output.DeviceInitialised => initialised

(***************************************************************************)
(* The detailed error PVs of the publishing layer.                         *)
(***************************************************************************)
\* the place of each component in the tuple of the instrument error request,
\* counted from 0, by the PV named after it
ComponentIndex ==
    [pv \in {"detailed_lsyringe_error", "detailed_lvalve_error",
              "detailed_rsyringe_error", "detailed_rvalve_error"} |->
        CASE pv = "detailed_lsyringe_error" -> 0
          [] pv = "detailed_lvalve_error" -> 1
          [] pv = "detailed_rsyringe_error" -> 2
          [] pv = "detailed_rvalve_error" -> 3]

\* a step of the for loop that publishes a detailed error PV from a tuple
PublishesDetailedError ==
    /\ input \in MonitorInputs
    /\ output.pc = "for" /\ output'.pc # "retry" /\ output' # output
    /\ output'.last.pv \in DOMAIN ComponentIndex
    /\ ~output'.last.failed

\* C39: each detailed error PV is published from the byte of the component
\* it is named after (left syringe 0, left valve 1, right syringe 2, right
\* valve 3): its value is the five low bits of that byte, and its alarm is
\* MAJOR exactly when one of these bits is set, and NO_ALARM otherwise.
C39_DetailedErrorReadsOwnByte ==
    [][PublishesDetailedError =>
          LET pv == output'.last.pv
              byte == output'.last.response.q[ComponentIndex[pv] + 1]
          IN  /\ pv = input.parameter_map[output.i]
              /\ output'.pvs[output.i] =
                    [value |-> IntValue(byte % 32),
                     severity |-> IF byte % 32 # 0 THEN "MAJOR_ALARM" ELSE "NO_ALARM",
                     alarm |-> "STATE_ALARM"]]_vars

\* the right syringe PV shows bit 4 of the third byte with a major alarm, and
\* the left syringe PV no alarm for a first byte with none of the five low
\* bits set
C39_Witness ==
    /\ input = [parameter_map |-> <<"detailed_rsyringe_error", "detailed_lsyringe_error">>]
    /\ output.pc = "sleep"
    /\ output.last.response = TupleResponse(<<96, 64, 80, 64>>)
    /\ output.pvs[1] = [value |-> IntValue(16), severity |-> "MAJOR_ALARM",
                        alarm |-> "STATE_ALARM"]
    /\ output.pvs[2] = [value |-> IntValue(0), severity |-> "NO_ALARM",
                        alarm |-> "STATE_ALARM"]

====
